---- MODULE Spec2Model ----
(***************************************************************************)
(* A model of the inxi JSON parser of big-hardware-info                    *)
(* (src/src/app/collectors/inxi_parser.py, class InxiParser).              *)
(*                                                                         *)
(* Representation of Python values.                                        *)
(*   - A JSON value is a tagged record [kind, n, s, xs]:                   *)
(*       kind = "none"  : None                                             *)
(*       kind = "str"   : a string, s its text                             *)
(*       kind = "int"   : an integer n                                     *)
(*       kind = "float" : a float, n its value in thousandths              *)
(*       kind = "list"  : a list, xs its elements                          *)
(*       kind = "dict"  : a dict, xs its <<key, value>> pairs in           *)
(*                        document (insertion) order, keys distinct        *)
(*   - A text (a Python str, a dict key) is a sequence of tokens.  A token *)
(*     is a single character ("1", ".", "#", "(", "%", "/", " ", ":", "-") *)
(*     or an atomic word with none of those characters in it ("GiB",       *)
(*     "CPU", "model").  Substring tests, splits and regular expressions   *)
(*     of the code are computed on the token sequence.                     *)
(*   - A parser returns Ok(value) or Raise(exception name).                *)
(***************************************************************************)
EXTENDS Integers, Sequences, FiniteSets, TLC

\* One InxiParser and the call of parse_full in progress on it: the document,
\* the position in the call, the local result, the exception that left it;
\* the answers the live queries of the machine give during the call; the
\* parser's _cache; the values earlier calls returned to the caller.
\* collector is the HardwareCollector.collect_all call that uses the parser:
\* its position, its local data mapping and the tasks still running.
\* export is the export or share in progress in the user interface, and
\* settings the configuration file with the AppConfig objects that use it.
\* sidebar is the _render_sidebar call of the HTML generator, and share the
\* shares of the report started from the window.  inxi is the
\* InxiCollector.collect call in progress, with the commands it has run.
VARIABLES data, pc, idx, result, exc, queries, cache, returned, collector,
          export, settings, sidebar, share, inxi

vars == <<data, pc, idx, result, exc, queries, cache, returned, collector,
          export, settings, sidebar, share, inxi>>

\* What a step inside parse_full leaves alone.
outside == <<queries, cache, returned, collector, export, settings, sidebar, share, inxi>>

-----------------------------------------------------------------------------
(* Python values *)

JNone == [kind |-> "none", n |-> 0, s |-> <<>>, xs |-> <<>>]
JStr(t) == [kind |-> "str", n |-> 0, s |-> t, xs |-> <<>>]
JInt(k) == [kind |-> "int", n |-> k, s |-> <<>>, xs |-> <<>>]
JFloat(m) == [kind |-> "float", n |-> m, s |-> <<>>, xs |-> <<>>]
JList(l) == [kind |-> "list", n |-> 0, s |-> <<>>, xs |-> l]
JDict(p) == [kind |-> "dict", n |-> 0, s |-> <<>>, xs |-> p]

\* One word as a text, and as a string value.
W(w) == <<w>>
S(w) == JStr(<<w>>)
Empty == JStr(<<>>)

\* Thousandths per unit of a float value.
Scale == 10 * 10 * 10

Ok(v) == [ok |-> TRUE, val |-> v, exc |-> ""]
Raise(e) == [ok |-> FALSE, val |-> <<>>, exc |-> e]

\* F applied to the value v (a local name for v).
Let(v, F(_)) == F(v)

\* The statement after one that may raise: F on the value of x, or x's
\* exception.
Then(x, F(_)) == IF x.ok THEN F(x.val) ELSE x

\* v in (None, "", [])
IsBlank(v) ==
    \/ v.kind = "none"
    \/ v.kind = "str" /\ v.s = <<>>
    \/ v.kind = "list" /\ v.xs = <<>>

\* bool(v)
Truthy(v) ==
    CASE v.kind = "none" -> FALSE
      [] v.kind = "str" -> v.s # <<>>
      [] v.kind \in {"int", "float"} -> v.n # 0
      [] OTHER -> v.xs # <<>>

Digit == {"0", "1", "2", "3", "4", "5", "6", "7", "8", "9"}

DigitVal(c) ==
    CASE c = "0" -> 0 [] c = "1" -> 1 [] c = "2" -> 2 [] c = "3" -> 3
      [] c = "4" -> 4 [] c = "5" -> 5 [] c = "6" -> 6 [] c = "7" -> 7
      [] c = "8" -> 8 [] c = "9" -> 9

DigitChar(d) ==
    CASE d = 0 -> "0" [] d = 1 -> "1" [] d = 2 -> "2" [] d = 3 -> "3"
      [] d = 4 -> "4" [] d = 5 -> "5" [] d = 6 -> "6" [] d = 7 -> "7"
      [] d = 8 -> "8" [] d = 9 -> "9"

AllDigits(t) == \A i \in 1..Len(t) : t[i] \in Digit

\* The number a non-empty digit sequence denotes.
RECURSIVE DigitsToInt(_)
DigitsToInt(t) ==
    IF t = <<>> THEN 0
    ELSE 10 * DigitsToInt(SubSeq(t, 1, Len(t) - 1)) + DigitVal(t[Len(t)])

\* str(n) of an int.
RECURSIVE NatToText(_)
NatToText(k) ==
    IF k < 10 THEN <<DigitChar(k)>>
    ELSE Append(NatToText(k \div 10), DigitChar(k % 10))

IntToText(k) == IF k < 0 THEN <<"-">> \o NatToText(0 - k) ELSE NatToText(k)

\* str(v): a str is itself, an int its decimal text; other values print as
\* text with no digit and none of the words the parser looks for.
ToStr(v) ==
    CASE v.kind = "str" -> v.s
      [] v.kind = "int" -> IntToText(v.n)
      [] v.kind = "none" -> <<"None">>
      [] OTHER -> <<"[", "]">>

\* pat is a contiguous part of t (Python: pat in t).
Contains(t, pat) ==
    \E i \in 1..(Len(t) - Len(pat) + 1) : SubSeq(t, i, i + Len(pat) - 1) = pat

\* str.lower() and str.upper(), token by token.
LowerTok(w) ==
    CASE w \in {"USB", "Usb"} -> "usb"
      [] w \in {"PCI", "Pci"} -> "pci"
      [] w = "Quad" -> "quad"
      [] w = "Core" -> "core"
      [] w = "SSD" -> "ssd"
      [] w = "NVMe" -> "nvme"
      [] w = "Integrated" -> "integrated"
      [] w = "Webcam" -> "webcam"
      [] w = "Camera" -> "camera"
      [] w = "NVIDIA" -> "nvidia"
      [] w = "GeForce" -> "geforce"
      [] w = "RTX" -> "rtx"
      [] w = "AMD" -> "amd"
      [] w = "HD" -> "hd"
      [] w = "Pro" -> "pro"
      [] OTHER -> w

UpperTok(w) ==
    CASE w \in {"usb", "Usb"} -> "USB"
      [] w \in {"pci", "Pci"} -> "PCI"
      [] w \in {"ssd"} -> "SSD"
      [] w \in {"nvme", "NVMe"} -> "NVME"
      [] OTHER -> w

Lower(t) == [i \in 1..Len(t) |-> LowerTok(t[i])]
Upper(t) == [i \in 1..Len(t) |-> UpperTok(t[i])]

\* The tokens of the texts the code sorts, in the order of their strings
\* (code points: "#", "-", ".", the digits, ":", capitals, small letters).
TokenOrder ==
    <<"#", "-", ".", "0", "1", "2", "3", "4", "5", "6", "7", "8", "9", ":",
      "Firmware", "Mobo", "System", "Type", "a", "b", "c", "d", "date", "e",
      "f", "model", "product", "v", "vendor">>

TokenRank(w) ==
    IF \E i \in 1..Len(TokenOrder) : TokenOrder[i] = w
    THEN CHOOSE i \in 1..Len(TokenOrder) : TokenOrder[i] = w
    ELSE Len(TokenOrder) + 1

-----------------------------------------------------------------------------
(* InxiParser._clean_key and the cleaning loop each parser opens with *)

\* Two variants of _clean_key: the text from the last separator on, and the
\* text after the first separator.
CleanKeyFromHash(key) ==
    IF \E i \in 1..Len(key) : key[i] = "#"
    THEN LET last == CHOOSE i \in 1..Len(key) :
                        /\ key[i] = "#"
                        /\ \A j \in (i + 1)..Len(key) : key[j] # "#"
         IN SubSeq(key, last, Len(key))
    ELSE key

CleanKeyAfterFirst(key) ==
    IF \E i \in 1..Len(key) : key[i] = "#"
    THEN LET first == CHOOSE i \in 1..Len(key) :
                         /\ key[i] = "#"
                         /\ \A j \in 1..(i - 1) : key[j] # "#"
         IN SubSeq(key, first + 1, Len(key))
    ELSE key

CleanKey(key) ==
    IF \E i \in 1..Len(key) : key[i] = "#"
    THEN LET last == CHOOSE i \in 1..Len(key) :
                        /\ key[i] = "#"
                        /\ \A j \in (i + 1)..Len(key) : key[j] # "#"
         IN SubSeq(key, last + 1, Len(key))
    ELSE key

\* cleaned = {}; for k, v in item.items(): if v not in (None, "", []):
\* cleaned[clean_key(k)] = v.  The dict is [at, keys]: at the mapping, keys
\* the cleaned keys in insertion order (a key written twice keeps its first
\* place and its later value).
Cleaned(pairs) ==
    LET live == {i \in 1..Len(pairs) : ~IsBlank(pairs[i][2])}
        names == {CleanKey(pairs[i][1]) : i \in live}
        lastOf(k) == CHOOSE i \in live :
                        /\ CleanKey(pairs[i][1]) = k
                        /\ \A j \in live : CleanKey(pairs[j][1]) = k => j <= i
        isFirst(i) == i \in live /\ \A j \in live :
                          CleanKey(pairs[j][1]) = CleanKey(pairs[i][1]) => i <= j
        order[i \in 0..Len(pairs)] ==
            IF i = 0 THEN <<>>
            ELSE IF isFirst(i) THEN Append(order[i - 1], CleanKey(pairs[i][1]))
            ELSE order[i - 1]
    IN [at |-> [k \in names |-> pairs[lastOf(k)][2]], keys |-> order[Len(pairs)]]

Has(c, name) == <<name>> \in DOMAIN c.at
Get(c, name, default) == IF <<name>> \in DOMAIN c.at THEN c.at[<<name>>] ELSE default

\* for item in items: what iterating the section's value yields, or the
\* TypeError of a value that is not iterable.  A str yields its characters, a
\* dict its keys.
IterItems(value) ==
    CASE value.kind = "list" -> Ok(value.xs)
      [] value.kind = "str" -> Ok([i \in 1..Len(value.s) |-> JStr(<<value.s[i]>>)])
      [] value.kind = "dict" -> Ok([i \in 1..Len(value.xs) |-> JStr(value.xs[i][1])])
      [] OTHER -> Raise("TypeError")

\* The loop "for item in items: <body>" of a section parser over the raw
\* items: item.items() (and item.keys()) raise AttributeError on an item that
\* is not a dict.
FoldRawItems(Body(_, _), init, value) ==
    LET it == IterItems(value)
        f[i \in 0..Len(it.val)] ==
            IF i = 0 THEN Ok(init)
            ELSE LET prev == f[i - 1]
                 IN IF ~prev.ok THEN prev
                    ELSE IF it.val[i].kind # "dict" THEN Raise("AttributeError")
                    ELSE Body(prev.val, it.val[i].xs)
    IN IF ~it.ok THEN it ELSE f[Len(it.val)]

\* The same loop when the body starts with the cleaning loop.
FoldItems(Body(_, _), init, value) ==
    FoldRawItems(LAMBDA acc, pairs : Body(acc, Cleaned(pairs)), init, value)

-----------------------------------------------------------------------------
(* Conversions *)

\* t without its leading and trailing blanks (str.strip()).
Strip(t) ==
    LET nb == {i \in 1..Len(t) : t[i] # " "}
    IN IF nb = {} THEN <<>>
       ELSE SubSeq(t, CHOOSE i \in nb : \A j \in nb : i <= j,
                      CHOOSE i \in nb : \A j \in nb : j <= i)

\* int(v): ValueError on a str that is no integer literal, TypeError on None,
\* a list or a dict.
PyInt(v) ==
    CASE v.kind = "int" -> Ok(v.n)
      [] v.kind = "float" -> Ok(v.n \div Scale)
      [] v.kind = "str" ->
            Let(Strip(v.s), LAMBDA t :
            Let(t # <<>> /\ t[1] \in {"-", "+"}, LAMBDA signed :
            Let(IF signed THEN Tail(t) ELSE t, LAMBDA body :
                IF body # <<>> /\ AllDigits(body)
                THEN Ok(IF signed /\ t[1] = "-" THEN 0 - DigitsToInt(body)
                        ELSE DigitsToInt(body))
                ELSE Raise("ValueError"))))
      [] OTHER -> Raise("TypeError")

\* t.split(sep)
RECURSIVE SplitOn(_, _)
SplitOn(t, sep) ==
    IF ~\E i \in 1..Len(t) : t[i] = sep THEN <<t>>
    ELSE LET i == CHOOSE k \in 1..Len(t) :
                    t[k] = sep /\ \A j \in 1..(k - 1) : t[j] # sep
         IN <<SubSeq(t, 1, i - 1)>> \o SplitOn(SubSeq(t, i + 1, Len(t)), sep)

EmptyDict == [x \in {} |-> 0]

-----------------------------------------------------------------------------
(* InxiParser._parse_cpu_section *)

CpuDefaults ==
    [model |-> Empty, cores |-> 0, threads |-> 0, type |-> Empty,
     bits |-> JInt(0), arch |-> Empty, gen |-> Empty, built |-> Empty,
     process |-> Empty, family |-> Empty, model_id |-> Empty,
     stepping |-> Empty, microcode |-> Empty, cache_l1 |-> Empty,
     cache_l2 |-> Empty, cache_l3 |-> Empty, speed_current |-> JInt(0),
     speed_min |-> 0, speed_max |-> 0, bogomips |-> JInt(0),
     scaling_driver |-> Empty, scaling_governor |-> Empty,
     core_speeds |-> EmptyDict, flags |-> Empty, vulnerabilities |-> <<>>,
     raw |-> Empty]

\* re.search(r"(\d+)[- ]core", t): the digits of the leftmost match, or <<>>.
CoreCountMatch(t) ==
    LET hits == {p \in (1..Len(t)) \X (1..Len(t)) :
                    /\ p[1] <= p[2]
                    /\ AllDigits(SubSeq(t, p[1], p[2]))
                    /\ p[2] + 2 <= Len(t)
                    /\ t[p[2] + 1] \in {"-", " "}
                    /\ t[p[2] + 2] = "core"}
    IN IF hits = {} THEN <<>>
       ELSE LET h == CHOOSE p \in hits : \A q \in hits : p[1] <= q[1]
            IN SubSeq(t, h[1], h[2])

\* "Parse Info for cores": the words, then the N-core pattern over them.
CpuInfoCores(cores, low) ==
    LET byWord ==
            IF Contains(low, <<"quad", " ", "core">>) THEN 4
            ELSE IF Contains(low, <<"octa", " ", "core">>) THEN 8
            ELSE IF Contains(low, <<"dual", " ", "core">>) THEN 2
            ELSE IF Contains(low, <<"hexa", " ", "core">>) THEN 6
            ELSE cores
        m == CoreCountMatch(low)
    IN IF m # <<>> THEN DigitsToInt(m) ELSE byWord

\* "Topology info": int(cleaned[name]) or, on ValueError/TypeError, no change.
CpuTopology(old, c, name) ==
    IF Has(c, name)
    THEN Let(PyInt(c.at[<<name>>]), LAMBDA n : IF n.ok THEN n.val ELSE old)
    ELSE old

\* for k, v in cleaned.items(): if k.isdigit(): core_speeds[int(k)] = v
CpuCoreSpeeds(speeds, c) ==
    LET f[i \in 0..Len(c.keys)] ==
            IF i = 0 THEN speeds
            ELSE LET k == c.keys[i]
                     prev == f[i - 1]
                 IN IF k # <<>> /\ AllDigits(k)
                    THEN (DigitsToInt(k) :> c.at[k]) @@ prev
                    ELSE prev
    IN f[Len(c.keys)]

\* The "min/max" field: <<speed_min, speed_max>> after the try block.
CpuMinMax(smin, smax, c) ==
    IF ~Has(c, "min/max") THEN <<smin, smax>>
    ELSE Let(SplitOn(ToStr(c.at[<<"min/max">>]), "/"), LAMBDA parts :
            IF Len(parts) # 2 THEN <<smin, smax>>
            ELSE Let(PyInt(JStr(parts[1])), LAMBDA a :
                 Let(PyInt(JStr(parts[2])), LAMBDA b :
                    IF ~a.ok THEN <<smin, smax>>
                    ELSE IF ~b.ok THEN <<a.val, smax>>
                    ELSE <<a.val, b.val>>)))

\* The body of the item loop.
CpuItem(r, c) ==
    LET info == Get(c, "Info", Empty)
        mm == CpuMinMax(r.speed_min, r.speed_max, c)
    IN IF Truthy(info) /\ info.kind # "str" THEN Raise("AttributeError")
       ELSE Ok([r EXCEPT
            !.model = Get(c, "model", @),
            !.type = Get(c, "type", @),
            !.bits = Get(c, "bits", @),
            !.arch = Get(c, "arch", @),
            !.gen = Get(c, "gen", @),
            !.built = Get(c, "built", @),
            !.process = Get(c, "process", @),
            !.family = Get(c, "family", @),
            !.model_id = Get(c, "model-id", @),
            !.stepping = Get(c, "stepping", @),
            !.microcode = Get(c, "microcode", @),
            !.cache_l1 = Get(c, "L1", @),
            !.cache_l2 = Get(c, "L2", @),
            !.cache_l3 = Get(c, "L3", @),
            !.cores = CpuTopology(
                IF Truthy(info) THEN CpuInfoCores(@, Lower(info.s)) ELSE @,
                c, "cores"),
            !.threads = CpuTopology(@, c, "threads"),
            !.core_speeds = CpuCoreSpeeds(@, c),
            !.speed_current = Get(c, "avg", @),
            !.speed_min = mm[1],
            !.speed_max = mm[2],
            !.bogomips = Get(c, "bogomips", @),
            !.scaling_driver = Get(c, "driver", @),
            !.scaling_governor = Get(c, "governor", @),
            !.flags = IF Has(c, "Flags") THEN c.at[<<"Flags">>]
                      ELSE Get(c, "Flags-basic", @),
            !.vulnerabilities =
                IF Has(c, "Type")
                THEN Append(@, [type |-> c.at[<<"Type">>],
                                status |-> Get(c, "status", Empty),
                                mitigation |-> Get(c, "mitigation", Empty)])
                ELSE @])

\* "Threads = number of logical processors (fallback)"
CpuThreadsFallback(r) ==
    IF r.threads = 0
    THEN [r EXCEPT !.threads = Cardinality(DOMAIN r.core_speeds)]
    ELSE r

\* The cores fallback without its "or threads" part.
CpuCoresFallbackHalf(r) ==
    IF r.threads > 0 /\ r.cores = 0
    THEN [r EXCEPT !.cores = r.threads \div 2]
    ELSE r

\* "Fallback for cores": threads // 2 or threads
CpuCoresFallback(r) ==
    IF r.threads > 0 /\ r.cores = 0
    THEN [r EXCEPT !.cores = IF r.threads \div 2 # 0 THEN r.threads \div 2
                             ELSE r.threads]
    ELSE r

ParseCpuSection(value) ==
    Then(FoldItems(CpuItem, CpuDefaults, value),
         LAMBDA r : Ok(CpuCoresFallback(CpuThreadsFallback(r))))

-----------------------------------------------------------------------------
(* InxiParser._parse_gpu_section *)

GpuDefaults ==
    [devices |-> <<>>, webcams |-> <<>>, displays |-> <<>>,
     display_info |-> EmptyDict, opengl |-> EmptyDict, vulkan |-> EmptyDict,
     egl |-> EmptyDict, monitors |-> <<>>]

webcam_keywords ==
    <<W("webcam"), W("camera"), W("cam"), <<"usb", "2", ".", "0">>,
      <<"hd", " ", "pro">>, W("facetime"), W("isight"), W("brio"),
      <<"c", "9", "2", "0">>, <<"c", "9", "2", "2">>, <<"c", "9", "2", "5">>,
      W("streamcam"), W("kiyo"), W("uvc"), <<"integrated", "_", "webcam">> >>

gpu_keywords ==
    <<W("vga"), W("nvidia"), W("amd"), W("radeon"), W("geforce"),
      <<"intel", " ", "hd">>, <<"intel", " ", "uhd">>, <<"intel", " ", "iris">>,
      W("matrox"), W("quadro"), W("firepro"), <<"arc", " ">>, W("display"),
      W("graphics"), W("gpu"), W("rtx"), W("gtx")>>

gpu_driver_keywords ==
    <<W("nvidia"), W("amdgpu"), W("radeon"), <<"i", "9", "1", "5">>, W("nouveau")>>

\* any(kw in text for kw in keywords)
AnyKeyword(text, keywords) ==
    \E i \in 1..Len(keywords) : Contains(text, keywords[i])

IsWebcam(name, driver) ==
    AnyKeyword(name, webcam_keywords) \/ Contains(driver, W("uvcvideo"))

IsGpu(name, driver) ==
    AnyKeyword(name, gpu_keywords) \/ AnyKeyword(driver, gpu_driver_keywords)

GpuWebcamRecord(c) ==
    [name |-> Get(c, "Device", Empty), driver |-> Get(c, "driver", Empty),
     type |-> Get(c, "type", S("USB")), bus_id |-> Get(c, "bus-ID", Empty),
     chip_id |-> Get(c, "chip-ID", Empty), serial |-> Get(c, "serial", Empty),
     speed |-> Get(c, "speed", Empty), mode |-> Get(c, "mode", Empty)]

GpuDeviceRecord(c) ==
    [name |-> Get(c, "Device", Empty), vendor |-> Get(c, "vendor", Empty),
     driver |-> Get(c, "driver", Empty), driver_version |-> Get(c, "v", Empty),
     bus_id |-> Get(c, "bus-ID", Empty), arch |-> Get(c, "arch", Empty),
     chip_id |-> Get(c, "chip-ID", Empty),
     ports_active |-> Get(c, "active", Empty),
     ports_empty |-> Get(c, "empty", Empty)]

GpuDisplayInfo(c) ==
    [display |-> Get(c, "Display", Empty), server |-> Get(c, "server", Empty),
     server_version |-> Get(c, "v", Empty), with |-> Get(c, "with", Empty),
     compositor |-> Get(c, "compositor", Empty),
     driver_loaded |-> Get(c, "loaded", Empty), gpu |-> Get(c, "gpu", Empty)]

GpuMonitor(c) ==
    [name |-> Get(c, "Monitor", Empty), model |-> Get(c, "model", Empty),
     resolution |-> Get(c, "res", Empty), size |-> Get(c, "size", Empty),
     diagonal |-> Get(c, "diag", Empty), dpi |-> Get(c, "dpi", Empty),
     gamma |-> Get(c, "gamma", Empty), ratio |-> Get(c, "ratio", Empty)]

GpuOpenGL(c) ==
    [version |-> Get(c, "v", Empty), compat_version |-> Get(c, "compat-v", Empty),
     vendor |-> Get(c, "vendor", Empty), glx_version |-> Get(c, "glx-v", Empty),
     direct_render |-> Get(c, "direct-render", Empty),
     renderer |-> Get(c, "renderer", Empty), memory |-> Get(c, "memory", Empty)]

GpuVulkan(c) ==
    [version |-> Get(c, "v", Empty), layers |-> Get(c, "layers", Empty),
     devices |-> IF Has(c, "device")
                 THEN <<[device |-> Get(c, "device", Empty),
                         type |-> Get(c, "type", Empty),
                         name |-> Get(c, "name", Empty),
                         driver |-> Get(c, "driver", Empty)]>>
                 ELSE <<>>]

GpuEGL(c) ==
    [version |-> Get(c, "v", Empty), hw |-> Get(c, "hw", Empty),
     platforms |-> Get(c, "platforms", Empty)]

\* cleaned.get("API") == name
ApiIs(c, name) ==
    Has(c, "API") /\ c.at[<<"API">>].kind = "str" /\ c.at[<<"API">>].s = W(name)

\* A variant of the Device branch: a webcam match wins over a GPU match.
GpuItemWebcamWins(r, c) ==
    IF Has(c, "Device")
    THEN LET dev == Get(c, "Device", Empty)
             drv == Get(c, "driver", Empty)
         IN IF dev.kind # "str" \/ drv.kind # "str" THEN Raise("AttributeError")
            ELSE IF IsWebcam(Lower(dev.s), Lower(drv.s))
                 THEN Ok([r EXCEPT !.webcams = Append(@, GpuWebcamRecord(c))])
                 ELSE Ok([r EXCEPT !.devices = Append(@, GpuDeviceRecord(c))])
    ELSE Ok(r)

GpuItem(r, c) ==
    IF Has(c, "Device")
    THEN LET dev == Get(c, "Device", Empty)
             drv == Get(c, "driver", Empty)
         IN IF dev.kind # "str" \/ drv.kind # "str" THEN Raise("AttributeError")
            ELSE LET is_webcam == IsWebcam(Lower(dev.s), Lower(drv.s))
                     is_gpu == IsGpu(Lower(dev.s), Lower(drv.s))
                 IN IF is_webcam /\ ~is_gpu
                    THEN Ok([r EXCEPT !.webcams = Append(@, GpuWebcamRecord(c))])
                    ELSE IF ~is_webcam \/ is_gpu
                    THEN Ok([r EXCEPT !.devices = Append(@, GpuDeviceRecord(c))])
                    ELSE Ok(r)
    ELSE IF Has(c, "Display") \/ Has(c, "server")
    THEN Ok([r EXCEPT !.display_info = GpuDisplayInfo(c)])
    ELSE IF Has(c, "Monitor")
    THEN Ok([r EXCEPT !.monitors = Append(@, GpuMonitor(c))])
    ELSE IF ApiIs(c, "OpenGL") THEN Ok([r EXCEPT !.opengl = GpuOpenGL(c)])
    ELSE IF ApiIs(c, "Vulkan") THEN Ok([r EXCEPT !.vulkan = GpuVulkan(c)])
    ELSE IF ApiIs(c, "EGL") THEN Ok([r EXCEPT !.egl = GpuEGL(c)])
    ELSE Ok(r)

ParseGpuSection(value) == FoldItems(GpuItem, GpuDefaults, value)

-----------------------------------------------------------------------------
(* Numbers read out of text *)

NumChar == Digit \cup {"."}

\* re.search(r"([\d.]+)", t): the leftmost longest run of digits and dots,
\* or <<>> when there is none.
NumRun(t) ==
    LET starts == {i \in 1..Len(t) : t[i] \in NumChar}
    IN IF starts = {} THEN <<>>
       ELSE LET a == CHOOSE i \in starts : \A j \in starts : i <= j
                b == CHOOSE k \in a..Len(t) :
                        /\ \A j \in a..k : t[j] \in NumChar
                        /\ (k = Len(t) \/ t[k + 1] \notin NumChar)
            IN SubSeq(t, a, b)

\* float(run) of a run of digits and dots: ValueError unless it has a digit
\* and at most one dot.  The value is in thousandths; digits past the third
\* decimal are dropped.
PyFloat(run) ==
    LET dots == {i \in 1..Len(run) : run[i] = "."}
    IN IF Cardinality(dots) > 1 \/ Cardinality(dots) = Len(run)
       THEN Raise("ValueError")
       ELSE LET d == IF dots = {} THEN Len(run) + 1 ELSE CHOOSE i \in dots : TRUE
                whole == SubSeq(run, 1, d - 1)
                frac == SubSeq(run \o <<"0", "0", "0", "0">>, d + 1, d + 3)
            IN Ok(DigitsToInt(whole) * Scale + DigitsToInt(frac))

\* round(x, 1) of the quotient num/den * 100, in thousandths: to the nearest
\* tenth, an exact half to the even tenth.
RoundedPercent(num, den) ==
    LET scaled == num * Scale
        fl == scaled \div den
        rem == scaled % den
        tenths == IF 2 * rem > den THEN fl + 1
                  ELSE IF 2 * rem = den THEN fl + (fl % 2)
                  ELSE fl
    IN tenths * (Scale \div 10)

-----------------------------------------------------------------------------
(* InxiParser._parse_memory_section *)

MemoryDefaults ==
    [total |-> Empty, used |-> Empty, available |-> Empty,
     used_percent |-> JInt(0), capacity |-> Empty, slots |-> Empty,
     ec |-> Empty, note |-> Empty, max_module_size |-> Empty, modules |-> <<>>]

\* str(cleaned[name]) if the key is there, else the old value
StrOf(c, name, old) == IF Has(c, name) THEN JStr(ToStr(c.at[<<name>>])) ELSE old

MemoryModule(c) ==
    [size |-> StrOf(c, "size", Empty),
     speed |-> JStr(ToStr(Get(c, "spec", Get(c, "speed", Empty)))),
     actual_speed |-> JStr(ToStr(Get(c, "actual", Get(c, "configured", Empty)))),
     type |-> StrOf(c, "type", Empty), slot |-> StrOf(c, "Device", Empty),
     manufacturer |-> StrOf(c, "manufacturer", Empty),
     volts |-> StrOf(c, "volts", Empty), part_no |-> StrOf(c, "part-no", Empty),
     serial |-> StrOf(c, "serial", Empty)]

\* "System RAM info": total is kept from the first item without a Device key
\* whose total text holds GiB or GB.
MemoryTotal(old, c) ==
    LET total_str == ToStr(Get(c, "total", Empty))
    IN IF /\ Has(c, "total") /\ ~Has(c, "Device")
          /\ (Contains(total_str, W("GiB")) \/ Contains(total_str, W("GB")))
          /\ ~Truthy(old)
       THEN JStr(total_str)
       ELSE old

MemoryItem(r, c) ==
    LET r1 == [r EXCEPT
            !.total = MemoryTotal(@, c),
            !.used = IF Has(c, "used") /\ ~Truthy(@)
                     THEN JStr(ToStr(c.at[<<"used">>])) ELSE @,
            !.available = IF Has(c, "available") /\ ~Truthy(@)
                          THEN JStr(ToStr(c.at[<<"available">>])) ELSE @,
            !.capacity = StrOf(c, "capacity", @),
            !.slots = StrOf(c, "slots", @),
            !.ec = StrOf(c, "EC", @),
            !.note = StrOf(c, "note", @),
            !.max_module_size = StrOf(c, "max-module-size", @),
            !.modules =
                IF /\ Has(c, "Device") /\ Has(c, "size")
                   /\ Truthy(c.at[<<"size">>])
                   /\ ~Contains(ToStr(c.at[<<"size">>]), <<"No", " ", "Module">>)
                THEN Append(@, MemoryModule(c))
                ELSE @]
    IN Ok(IF Has(c, "modules")
          THEN ("modules_count" :> JStr(ToStr(c.at[<<"modules">>]))) @@ r1
          ELSE r1)

\* "Calculate used percentage"
MemoryUsedPercent(r) ==
    IF Truthy(r.total) /\ Truthy(r.used)
    THEN Let(NumRun(r.total.s), LAMBDA total_match :
         Let(NumRun(r.used.s), LAMBDA used_match :
            IF total_match # <<>> /\ used_match # <<>>
            THEN Let(PyFloat(total_match), LAMBDA total_val :
                 Let(PyFloat(used_match), LAMBDA used_val :
                    IF total_val.ok /\ used_val.ok /\ total_val.val > 0
                    THEN [r EXCEPT !.used_percent =
                            JFloat(RoundedPercent(used_val.val, total_val.val))]
                    ELSE r))
            ELSE r))
    ELSE r

ParseMemorySection(value) ==
    Then(FoldItems(MemoryItem, MemoryDefaults, value),
         LAMBDA r : Ok(MemoryUsedPercent(r)))

-----------------------------------------------------------------------------
(* InxiParser._parse_audio_section *)

\* The attachment attributes of a Device item: usb_* for a USB device,
\* pcie_* for every other.
\* Attributes that keep the PCIe keys for a USB device as well.
BusAttributesBoth(is_usb, c) ==
    [pcie_gen |-> Get(c, "gen", Empty), pcie_speed |-> Get(c, "speed", Empty),
     pcie_lanes |-> Get(c, "lanes", Empty)]
    @@ (IF is_usb
        THEN [usb_speed |-> Get(c, "speed", Empty), usb_rev |-> Get(c, "rev", Empty)]
        ELSE EmptyDict)

BusAttributes(is_usb, c) ==
    IF is_usb
    THEN [usb_speed |-> Get(c, "speed", Empty), usb_rev |-> Get(c, "rev", Empty)]
    ELSE [pcie_gen |-> Get(c, "gen", Empty), pcie_speed |-> Get(c, "speed", Empty),
          pcie_lanes |-> Get(c, "lanes", Empty)]

AudioDevice(c, device_type) ==
    [name |-> Get(c, "Device", Empty), vendor |-> Get(c, "vendor", Empty),
     driver |-> Get(c, "driver", Empty), bus_id |-> Get(c, "bus-ID", Empty),
     chip_id |-> Get(c, "chip-ID", Empty), class_id |-> Get(c, "class-ID", Empty),
     type |-> IF device_type # <<>> THEN JStr(device_type) ELSE S("PCI"),
     serial |-> Get(c, "serial", Empty)]
    @@ BusAttributes(device_type = W("USB"), c)

AudioItem(r, c) ==
    IF ~Has(c, "Device") THEN Ok(r)
    ELSE IF Get(c, "type", Empty).kind # "str" THEN Raise("AttributeError")
    ELSE Ok([r EXCEPT !.devices =
                Append(@, AudioDevice(c, Upper(Get(c, "type", Empty).s)))])

ParseAudioSection(value) == FoldItems(AudioItem, [devices |-> <<>>], value)

-----------------------------------------------------------------------------
(* InxiParser._parse_network_section and its live queries.  The answers of
   the live queries are inputs: an ip answer is [ok, map], ok FALSE when the
   query failed before any device was touched, map the interface table
   built from "ip -j addr"; a routing answer is the record
   _get_network_routing_info returns (its defaults when the queries fail). *)

NetworkDevice(c, device_type) ==
    [name |-> Get(c, "Device", Empty), vendor |-> Get(c, "vendor", Empty),
     driver |-> Get(c, "driver", Empty), bus_id |-> Get(c, "bus-ID", Empty),
     chip_id |-> Get(c, "chip-ID", Empty), class_id |-> Get(c, "class-ID", Empty),
     port |-> Get(c, "port", Empty), mac |-> Get(c, "mac", Empty),
     type |-> IF device_type # <<>> THEN JStr(device_type) ELSE S("PCI")]
    @@ BusAttributes(device_type = W("USB"), c)

InterfaceInfo(c) ==
    [IF |-> Get(c, "IF", Get(c, "IF-ID", Empty)), state |-> Get(c, "state", Empty),
     mac |-> Get(c, "mac", Empty), speed |-> Get(c, "speed", Empty),
     duplex |-> Get(c, "duplex", Empty), ip |-> Get(c, "ip", Empty),
     ipv6 |-> Get(c, "ipv6", Empty)]

virtual_keywords ==
    <<W("veth"), W("docker"), W("virbr"), <<"br", "-">>, W("vbox"), W("vmnet")>>

\* An item step that opens a device without emitting the one that is open.
NetworkItemDropsOpen(r, c) ==
    IF Has(c, "Device")
    THEN IF Get(c, "type", Empty).kind # "str" THEN Raise("AttributeError")
         ELSE Ok([r EXCEPT
                    !.cur = <<NetworkDevice(c, Upper(Get(c, "type", Empty).s))>>])
    ELSE IF Has(c, "IF") \/ Has(c, "IF-ID")
    THEN LET info == InterfaceInfo(c)
         IN IF r.cur # <<>>
            THEN Ok([r EXCEPT !.devices = Append(@, info @@ r.cur[1]),
                              !.cur = <<>>])
            ELSE IF AnyKeyword(Lower(info.IF.s), virtual_keywords)
            THEN Ok([r EXCEPT !.virtual_devices =
                        Append(@, ("name" :> info.IF) @@ info)])
            ELSE Ok([r EXCEPT !.devices = Append(@, ("name" :> info.IF) @@ info)])
    ELSE Ok(r)

\* The accumulator is [devices, virtual_devices, cur]: cur is <<>> for
\* current_device = None and <<d>> for an open device d.
NetworkItem(r, c) ==
    IF Has(c, "Device")
    THEN IF Get(c, "type", Empty).kind # "str" THEN Raise("AttributeError")
         ELSE Ok([r EXCEPT
                    !.devices = @ \o r.cur,
                    !.cur = <<NetworkDevice(c, Upper(Get(c, "type", Empty).s))>>])
    ELSE IF Has(c, "IF") \/ Has(c, "IF-ID")
    THEN LET info == InterfaceInfo(c)
         IN IF info.IF.kind # "str" THEN Raise("AttributeError")
            ELSE IF r.cur # <<>>
            THEN Ok([r EXCEPT !.devices = Append(@, info @@ r.cur[1]),
                              !.cur = <<>>])
            ELSE IF AnyKeyword(Lower(info.IF.s), virtual_keywords)
            THEN Ok([r EXCEPT !.virtual_devices =
                        Append(@, ("name" :> info.IF) @@ info)])
            ELSE Ok([r EXCEPT !.devices = Append(@, ("name" :> info.IF) @@ info)])
    ELSE Ok(r)

\* device.get(name, default) on a device record
Field(d, name, default) == IF name \in DOMAIN d THEN d[name] ELSE default

\* _add_ip_addresses: fills ip and ipv6 of the devices whose interface name
\* is in the table.  An interface name that cannot be hashed (a list or a
\* dict) raises inside the loop; the except clause ends the loop there.
AddIpAddresses(devices, answer) ==
    LET ifname(d) == Field(d, "IF", Field(d, "name", Empty))
        stops == {i \in 1..Len(devices) :
                    Truthy(ifname(devices[i])) /\ ifname(devices[i]).kind \in {"list", "dict"}}
        upto == IF stops = {} THEN Len(devices)
                ELSE (CHOOSE i \in stops : \A j \in stops : i <= j) - 1
        fill(d) ==
            LET n == ifname(d)
            IN IF Truthy(n) /\ n.kind = "str" /\ n.s \in DOMAIN answer.map
               THEN LET withIp == IF ~Truthy(Field(d, "ip", Empty))
                                  THEN ("ip" :> answer.map[n.s].ipv4) @@ d ELSE d
                    IN IF ~Truthy(Field(withIp, "ipv6", Empty))
                       THEN ("ipv6" :> answer.map[n.s].ipv6) @@ withIp ELSE withIp
               ELSE d
    IN IF ~answer.ok THEN devices
       ELSE [i \in 1..Len(devices) |-> IF i <= upto THEN fill(devices[i]) ELSE devices[i]]

RoutingDefaults == [gateway |-> Empty, dns_servers |-> <<>>, gateway_interface |-> Empty]

\* How a live query ends: with an answer ("ok"), with the binary missing
\* (FileNotFoundError), with a non-zero exit status, with a timeout
\* (TimeoutExpired), or with output that cannot be used ("malformed": text
\* json.loads rejects, a route without "via", lines without an address).
QueryOutcomes == {"ok", "missing", "nonzero", "timeout", "malformed"}

\* How reading /etc/resolv.conf ends.
ResolvConfOutcomes == {"ok", "absent", "unreadable"}

\* The table _add_ip_addresses builds from "ip -j addr", or no table when
\* the query fails: every failure is caught by the except clause of line 723
\* or skipped by the returncode test.
IpAddrAnswer(outcome) ==
    IF outcome = "ok"
    THEN [ok |-> TRUE,
          map |-> (W("eth0") :> [ipv4 |-> S("ip4"), ipv6 |-> S("ip6")])
                  @@ (<<"docker", "0">> :> [ipv4 |-> S("ip4d"), ipv6 |-> S("ip6d")])]
    ELSE [ok |-> FALSE, map |-> EmptyDict]

\* _get_network_routing_info on the outcomes q of "ip route show default",
\* "resolvectl dns" and the resolv.conf read.  An exception of ip route ends
\* the whole try block; FileNotFoundError of resolvectl is passed over, any
\* other exception of it (and of the resolv.conf read) ends the block with
\* what was filled so far.
GetNetworkRoutingInfo(q) ==
    IF q.ip_route \in {"missing", "timeout"} THEN RoutingDefaults
    ELSE Let(IF q.ip_route = "ok"
             THEN [RoutingDefaults EXCEPT !.gateway = S("gw"),
                                          !.gateway_interface = S("eth0")]
             ELSE RoutingDefaults,
             LAMBDA r :
                IF q.resolvectl = "timeout" THEN r
                ELSE IF q.resolvectl = "ok" THEN [r EXCEPT !.dns_servers = <<S("dns")>>]
                ELSE IF q.resolv_conf = "ok" THEN [r EXCEPT !.dns_servers = <<S("dns2")>>]
                ELSE r)

\* A variant without the except clauses: a failed "ip -j addr" leaves the
\* parser by its exception.
ParseNetworkSectionUnguarded(value, env) ==
    Then(FoldItems(NetworkItem,
                   [devices |-> <<>>, virtual_devices |-> <<>>, cur |-> <<>>], value),
         LAMBDA r :
            IF ~env.ip1.ok \/ ~env.ip2.ok THEN Raise("CalledProcessError")
            ELSE Ok(env.route @@
                    [devices |-> AddIpAddresses(r.devices \o r.cur, env.ip1),
                     virtual_devices |-> AddIpAddresses(r.virtual_devices, env.ip2)]))

ParseNetworkSection(value, env) ==
    Then(FoldItems(NetworkItem,
                   [devices |-> <<>>, virtual_devices |-> <<>>, cur |-> <<>>], value),
         LAMBDA r :
            Ok(env.route @@
               [devices |-> AddIpAddresses(r.devices \o r.cur, env.ip1),
                virtual_devices |-> AddIpAddresses(r.virtual_devices, env.ip2)]))

-----------------------------------------------------------------------------
(* InxiParser._parse_disk_section *)

\* re.search(r"\(([\d.]+)%\)", t): group 1 of the leftmost match, or <<>>.
PercentMatch(t) ==
    LET hits == {p \in (1..Len(t)) \X (1..Len(t)) :
                    /\ p[1] + 1 <= p[2] - 2
                    /\ t[p[1]] = "(" /\ t[p[2] - 1] = "%" /\ t[p[2]] = ")"
                    /\ \A j \in (p[1] + 1)..(p[2] - 2) : t[j] \in NumChar}
    IN IF hits = {} THEN <<>>
       ELSE LET h == CHOOSE p \in hits : \A q \in hits : p[1] <= q[1]
            IN SubSeq(t, h[1] + 1, h[2] - 2)

\* used_percent = 0; match = ...; if match: used_percent = float(group 1).
\* Ok(value) or the ValueError of float().
UsedPercent(old, used_str) ==
    Let(PercentMatch(used_str), LAMBDA m :
        IF m = <<>> THEN Ok(old)
        ELSE Let(PyFloat(m), LAMBDA x :
                IF x.ok THEN Ok(JFloat(x.val)) ELSE Raise("ValueError")))

DiskDefaults ==
    [drives |-> <<>>, partitions |-> <<>>, swap |-> <<>>, total_size |-> Empty,
     used |-> Empty, used_percent |-> JInt(0)]

DriveType(c) ==
    LET tech == Upper(ToStr(Get(c, "tech", Empty)))
        byTech == IF Contains(tech, W("SSD")) THEN "SSD"
                  ELSE IF Contains(tech, W("NVME")) THEN "NVMe"
                  ELSE "HDD"
    IN IF Contains(Lower(ToStr(Get(c, "ID", Empty))), W("nvme")) THEN "NVMe"
       ELSE byTech

DriveRecord(c) ==
    [id |-> Get(c, "ID", Empty), model |-> Get(c, "model", Empty),
     size |-> StrOf(c, "size", Empty), vendor |-> Get(c, "vendor", Empty),
     type |-> S(DriveType(c)), serial |-> Get(c, "serial", Empty),
     temp |-> Get(c, "temp", Empty), speed |-> Get(c, "speed", Empty),
     lanes |-> Get(c, "lanes", Empty), firmware |-> Get(c, "fw-rev", Empty),
     scheme |-> Get(c, "scheme", Empty), block_physical |-> Get(c, "physical", Empty),
     block_logical |-> Get(c, "logical", Empty), maj_min |-> Get(c, "maj-min", Empty)]

\* The first loop: drives and the "Local Storage" summary.
DiskItem(r, c) ==
    IF Has(c, "Local Storage") \/ Has(c, "total")
    THEN Let(ToStr(Get(c, "used", Empty)), LAMBDA used_str :
         Then(UsedPercent(r.used_percent, used_str), LAMBDA used_percent :
            Ok([r EXCEPT !.total_size = JStr(ToStr(Get(c, "total", Empty))),
                         !.used = JStr(used_str),
                         !.used_percent = used_percent])))
    ELSE IF Has(c, "model") /\ Has(c, "size")
    THEN Ok([r EXCEPT !.drives = Append(@, DriveRecord(c))])
    ELSE Ok(r)

PartitionRecord(c, used_percent) ==
    [id |-> Get(c, "ID", Empty), raw_size |-> JStr(ToStr(Get(c, "raw-size", Empty))),
     size |-> JStr(ToStr(Get(c, "size", Empty))),
     used |-> JStr(ToStr(Get(c, "used", Empty))), used_percent |-> used_percent,
     fs |-> Get(c, "fs", Empty), dev |-> Get(c, "dev", Empty),
     label |-> Get(c, "label", Empty),
     mount |-> Get(c, "mount", Get(c, "mountpoint", Empty))]

PartitionItem(r, c) ==
    IF ~Has(c, "ID") THEN Ok(r)
    ELSE Then(UsedPercent(JInt(0), ToStr(Get(c, "used", Empty))),
              LAMBDA used_percent :
                 Ok([r EXCEPT !.partitions = Append(@, PartitionRecord(c, used_percent))]))

SwapRecord(c, used_percent) ==
    [id |-> Get(c, "ID", Empty), type |-> Get(c, "type", Empty),
     size |-> JStr(ToStr(Get(c, "size", Empty))),
     used |-> JStr(ToStr(Get(c, "used", Empty))), used_percent |-> used_percent,
     priority |-> Get(c, "priority", Empty), comp |-> Get(c, "comp", Empty),
     dev |-> Get(c, "dev", Get(c, "file", Empty))]

SwapItem(r, c) ==
    IF Has(c, "Kernel") \/ Has(c, "swappiness")
    THEN Ok(("swap_kernel" :>
                [swappiness |-> Get(c, "swappiness", Empty),
                 cache_pressure |-> Get(c, "cache-pressure", Empty),
                 zswap |-> Get(c, "zswap", Empty),
                 compressor |-> Get(c, "compressor", Empty)]) @@ r)
    ELSE IF Has(c, "ID") \/ Has(c, "type")
    THEN Then(UsedPercent(JInt(0), ToStr(Get(c, "used", Empty))),
              LAMBDA used_percent :
                 Ok([r EXCEPT !.swap = Append(@, SwapRecord(c, used_percent))]))
    ELSE Ok(r)

\* dict.items() of a section of the document: its pairs, or AttributeError.
SectionPairs(section) ==
    IF section.kind = "dict" THEN Ok(section.xs) ELSE Raise("AttributeError")

\* The second loop: the Partition and Swap sections of the whole document.
DiskSiblings(r0, full_data) ==
    LET onPair(r, pair) ==
            LET section_name == CleanKey(pair[1])
            IN IF Contains(section_name, W("Partition")) /\ pair[2].kind = "list"
               THEN FoldItems(PartitionItem, r, pair[2])
               ELSE IF Contains(section_name, W("Swap")) /\ pair[2].kind = "list"
               THEN FoldItems(SwapItem, r, pair[2])
               ELSE Ok(r)
        onSection(r, section) ==
            LET ps == SectionPairs(section)
                g[j \in 0..Len(ps.val)] ==
                    IF j = 0 THEN Ok(r)
                    ELSE LET prev == g[j - 1]
                         IN IF ~prev.ok THEN prev ELSE onPair(prev.val, ps.val[j])
            IN IF ~ps.ok THEN ps ELSE g[Len(ps.val)]
        f[i \in 0..Len(full_data)] ==
            IF i = 0 THEN Ok(r0)
            ELSE LET prev == f[i - 1]
                 IN IF ~prev.ok THEN prev ELSE onSection(prev.val, full_data[i])
    IN f[Len(full_data)]

\* A disk parser that reads the Partition and Swap sections that follow
\* the first section of the document only.
ParseDiskSectionAfterFirst(value, full_data) ==
    Then(FoldItems(DiskItem, DiskDefaults, value),
         LAMBDA r : DiskSiblings(r, SubSeq(full_data, 2, Len(full_data))))

ParseDiskSection(value, full_data) ==
    Then(FoldItems(DiskItem, DiskDefaults, value),
         LAMBDA r : DiskSiblings(r, full_data))

-----------------------------------------------------------------------------
(* InxiParser._parse_system_section; extra is what
   _collect_extra_system_info returns (uptime, hostname, shell, install_date:
   shell always, the others when their command succeeded). *)

SystemDefaults ==
    [host |-> Empty, kernel |-> Empty, kernel_arch |-> Empty,
     kernel_bits |-> Empty, compiler |-> Empty, compiler_version |-> Empty,
     desktop |-> Empty, desktop_version |-> Empty, wm |-> Empty, dm |-> Empty,
     tk |-> Empty, distro |-> Empty, init |-> Empty]

SystemItem(r, c) ==
    Ok([r EXCEPT
        !.host = Get(c, "Host", @),
        !.kernel = Get(c, "Kernel", @),
        !.kernel_arch = Get(c, "arch", @),
        !.kernel_bits = StrOf(c, "bits", @),
        !.compiler = Get(c, "compiler", @),
        !.desktop = Get(c, "Desktop", @),
        !.desktop_version = IF Has(c, "Desktop") THEN Get(c, "v", @) ELSE @,
        !.wm = Get(c, "wm", @),
        !.dm = Get(c, "dm", @),
        !.tk = Get(c, "tk", @),
        !.distro = Get(c, "Distro", @),
        !.init = Get(c, "Init", @)])

ParseSystemSection(value, extra) ==
    Then(FoldItems(SystemItem, SystemDefaults, value), LAMBDA r : Ok(extra @@ r))

-----------------------------------------------------------------------------
(* InxiParser._parse_machine_section *)

MachineDefaults ==
    [type |-> Empty, system |-> Empty, product |-> Empty, mobo |-> Empty,
     mobo_model |-> Empty, mobo_version |-> Empty, firmware_type |-> Empty,
     firmware_vendor |-> Empty, firmware_version |-> Empty,
     firmware_date |-> Empty]

\* a < b for two texts, as Python compares strings.
TextLess(a, b) ==
    \E i \in 1..(Len(a) + 1) :
        /\ i <= Len(b)
        /\ \A j \in 1..(i - 1) : j <= Len(a) /\ a[j] = b[j]
        /\ (i = Len(a) + 1 \/ TokenRank(a[i]) < TokenRank(b[i]))

\* The pairs of an item in sorted-key order.
SortedPairs(pairs) == SortSeq(pairs, LAMBDA p, q : TextLess(p[1], q[1]))

\* One key of the inner loop; st is [r, found_mobo, found_firmware, mobo_v_set].
MachineKey(st, key, value) ==
    LET clean_key == CleanKey(key)
    IN IF IsBlank(value) THEN st
       ELSE IF clean_key = W("Type") THEN [st EXCEPT !.r.type = value]
       ELSE IF clean_key = W("System") THEN [st EXCEPT !.r.system = value]
       ELSE IF clean_key = W("product") THEN [st EXCEPT !.r.product = value]
       ELSE IF clean_key = W("Mobo")
       THEN [st EXCEPT !.r.mobo = value, !.found_mobo = TRUE]
       ELSE IF clean_key = W("model") /\ st.found_mobo
       THEN [st EXCEPT !.r.mobo_model = value]
       ELSE IF clean_key = W("v") /\ st.found_mobo /\ ~st.found_firmware
               /\ ~st.mobo_v_set
       THEN [st EXCEPT !.r.mobo_version = value, !.mobo_v_set = TRUE]
       ELSE IF clean_key = W("Firmware")
       THEN [st EXCEPT !.r.firmware_type = value, !.found_firmware = TRUE]
       ELSE IF clean_key = W("vendor") /\ st.found_firmware
       THEN [st EXCEPT !.r.firmware_vendor = value]
       ELSE IF clean_key = W("v") /\ st.found_firmware
       THEN [st EXCEPT !.r.firmware_version = value]
       ELSE IF clean_key = W("date") THEN [st EXCEPT !.r.firmware_date = value]
       ELSE st

\* An item step that keeps what the item before has seen.
MachineItemCarrying(r, pairs) ==
    LET sorted == SortedPairs(pairs)
        f[i \in 0..Len(sorted)] ==
            IF i = 0
            THEN [r |-> r, found_mobo |-> r.mobo # Empty,
                  found_firmware |-> r.firmware_type # Empty, mobo_v_set |-> FALSE]
            ELSE MachineKey(f[i - 1], sorted[i][1], sorted[i][2])
    IN Ok(f[Len(sorted)].r)

MachineItem(r, pairs) ==
    LET sorted == SortedPairs(pairs)
        f[i \in 0..Len(sorted)] ==
            IF i = 0
            THEN [r |-> r, found_mobo |-> FALSE, found_firmware |-> FALSE,
                  mobo_v_set |-> FALSE]
            ELSE MachineKey(f[i - 1], sorted[i][1], sorted[i][2])
    IN Ok(f[Len(sorted)].r)

ParseMachineSection(value) == FoldRawItems(MachineItem, MachineDefaults, value)

-----------------------------------------------------------------------------
(* InxiParser._parse_battery_section *)

\* re.search(r"(\d+(?:\.\d+)?)", t): the leftmost match, or <<>>.
DecimalMatch(t) ==
    LET starts == {i \in 1..Len(t) : t[i] \in Digit}
    IN IF starts = {} THEN <<>>
       ELSE LET a == CHOOSE i \in starts : \A j \in starts : i <= j
                endOfDigits(from) ==
                    CHOOSE k \in from..Len(t) :
                        /\ \A j \in from..k : t[j] \in Digit
                        /\ (k = Len(t) \/ t[k + 1] \notin Digit)
                b == endOfDigits(a)
            IN IF b + 2 <= Len(t) /\ t[b + 1] = "." /\ t[b + 2] \in Digit
               THEN SubSeq(t, a, endOfDigits(b + 2))
               ELSE SubSeq(t, a, b)

BatteryRecord(c) ==
    LET m == DecimalMatch(ToStr(Get(c, "charge", Empty)))
        volts_val == Get(c, "volts", Empty)
    IN [id |-> Get(c, "ID", Empty),
        charge |-> IF Has(c, "charge") /\ m # <<>> THEN JFloat(PyFloat(m).val)
                   ELSE JInt(0),
        condition |-> Get(c, "condition", Empty),
        volts |-> IF ~Has(c, "volts") THEN Empty
                  ELSE IF volts_val.kind \in {"int", "float"}
                  THEN JStr(ToStr(volts_val) \o <<" ", "V">>)
                  ELSE JStr(ToStr(volts_val)),
        volts_min |-> Get(c, "min", Empty), model |-> Get(c, "model", Empty),
        type |-> Get(c, "type", Empty), serial |-> Get(c, "serial", Empty),
        charging |-> Get(c, "charging", Empty), status |-> Get(c, "status", Empty),
        cycles |-> Get(c, "cycles", Empty)]

BatteryItem(r, c) ==
    IF Has(c, "ID") \/ Has(c, "charge")
    THEN Ok([r EXCEPT !.present = TRUE, !.batteries = Append(@, BatteryRecord(c))])
    ELSE Ok(r)

\* "Backwards compatibility": the first battery's fields at the top level.
BatteryFlat(r) ==
    LET first == IF r.batteries # <<>> THEN r.batteries[1]
                 ELSE [charge |-> JInt(0), status |-> Empty, condition |-> Empty,
                       model |-> Empty, volts |-> Empty, serial |-> Empty,
                       type |-> Empty, cycles |-> Empty]
    IN [charge |-> first.charge, status |-> first.status,
        condition |-> first.condition, model |-> first.model,
        volts |-> first.volts, serial |-> first.serial, type |-> first.type,
        cycles |-> first.cycles] @@ r

ParseBatterySection(value) ==
    Then(FoldItems(BatteryItem, [present |-> FALSE, batteries |-> <<>>], value),
         LAMBDA r : Ok(BatteryFlat(r)))

-----------------------------------------------------------------------------
(* InxiParser._parse_sensors_section; sensors_cmd is the output of the
   "sensors" command, "" when it failed. *)

IsNumber(v) == v.kind \in {"int", "float"}

SensorsItem(r, c) ==
    LET cpu == Get(c, "cpu", Empty)
        run == IF cpu.kind = "str" THEN NumRun(cpu.s) ELSE <<>>
        tail == (IF Has(c, "mobo") /\ IsNumber(c.at[<<"mobo">>])
                 THEN <<[name |-> "Motherboard", temp |-> c.at[<<"mobo">>]]>>
                 ELSE <<>>)
                \o (IF Has(c, "gpu") /\ IsNumber(c.at[<<"gpu">>])
                    THEN <<[name |-> "GPU", temp |-> c.at[<<"gpu">>]]>>
                    ELSE <<>>)
    IN IF Has(c, "cpu") /\ IsNumber(cpu)
       THEN Ok([r EXCEPT !.temps = @ \o <<[name |-> "CPU", temp |-> cpu]>> \o tail])
       ELSE IF Has(c, "cpu") /\ run # <<>>
       THEN IF ~PyFloat(run).ok THEN Raise("ValueError")
            ELSE Ok([r EXCEPT !.temps =
                    @ \o <<[name |-> "CPU", temp |-> JFloat(PyFloat(run).val)]>> \o tail])
       ELSE Ok([r EXCEPT !.temps = @ \o tail])

ParseSensorsSection(value, sensors_cmd) ==
    Then(FoldItems(SensorsItem,
                   [temps |-> <<>>, fans |-> <<>>, sensors_cmd |-> Empty], value),
         LAMBDA r : Ok([r EXCEPT !.sensors_cmd = sensors_cmd]))

-----------------------------------------------------------------------------
(* InxiParser._parse_info_section *)

InfoItem(r, c) ==
    LET mem == IF Has(c, "total") /\ Has(c, "available")
               THEN [memory_total |-> Get(c, "total", Empty),
                     memory_available |-> Get(c, "available", Empty),
                     memory_used |-> Get(c, "used", Empty)]
               ELSE EmptyDict
        proc == IF Has(c, "Processes")
                THEN [processes |-> StrOf(c, "Processes", Empty),
                      uptime |-> Get(c, "uptime", Empty),
                      power_states |-> Get(c, "states", Empty),
                      suspend_mode |-> Get(c, "suspend", Empty),
                      hibernate_mode |-> Get(c, "hibernate", Empty),
                      hibernate_image |-> Get(c, "image", Empty)]
                ELSE EmptyDict
        init == IF Has(c, "Processes") /\ Has(c, "Init")
                THEN [init |-> Get(c, "Init", Empty),
                      init_version |-> Get(c, "v", Empty),
                      init_services |-> Get(c, "services", Empty)]
                ELSE EmptyDict
        pkgs == IF Has(c, "Packages")
                THEN [packages |-> StrOf(c, "Packages", Empty),
                      shell |-> Get(c, "Shell", Empty),
                      shell_version |-> Get(c, "v", Empty),
                      inxi_version |-> Get(c, "inxi", Empty),
                      gcc_version |-> Get(c, "gcc", Empty),
                      clang_version |-> Get(c, "clang", Empty)]
                ELSE EmptyDict
        repos == IF Has(c, "Repos") THEN [repos |-> StrOf(c, "Repos", Empty)]
                 ELSE EmptyDict
    IN Ok(repos @@ pkgs @@ init @@ proc @@ mem @@ r)

ParseInfoSection(value) == FoldItems(InfoItem, EmptyDict, value)

-----------------------------------------------------------------------------
(* InxiParser._parse_bluetooth_section, _parse_processes_section,
   _parse_repos_section, _parse_usb_section *)

BluetoothItem(r, c) ==
    IF ~Has(c, "Device") THEN Ok(r)
    ELSE Ok([r EXCEPT !.devices = Append(@,
            [name |-> Get(c, "Device", Empty), vendor |-> Get(c, "vendor", Empty),
             driver |-> Get(c, "driver", Empty), bus_id |-> Get(c, "bus-ID", Empty),
             chip_id |-> Get(c, "chip-ID", Empty),
             class_id |-> Get(c, "class-ID", Empty),
             state |-> Get(c, "state", Empty),
             bt_version |-> Get(c, "bt-v", Empty)])])

ParseBluetoothSection(value) == FoldItems(BluetoothItem, [devices |-> <<>>], value)

\* The accumulator carries current_section ("" for None).
ProcessesItem(r, c) ==
    LET process == [command |-> Get(c, "command", Empty), pid |-> Get(c, "pid", Empty),
                    cpu |-> Get(c, "cpu", Empty), mem |-> Get(c, "mem", Empty)]
    IN IF Has(c, "CPU top") THEN Ok([r EXCEPT !.current_section = "cpu"])
       ELSE IF Has(c, "Memory top") THEN Ok([r EXCEPT !.current_section = "memory"])
       ELSE IF Has(c, "command") /\ r.current_section = "cpu"
       THEN Ok([r EXCEPT !.cpu_top = Append(@, process)])
       ELSE IF Has(c, "command") /\ r.current_section = "memory"
       THEN Ok([r EXCEPT !.memory_top = Append(@, process)])
       ELSE Ok(r)

ParseProcessesSection(value) ==
    Then(FoldItems(ProcessesItem,
                   [cpu_top |-> <<>>, memory_top |-> <<>>, current_section |-> ""],
                   value),
         LAMBDA r : Ok([cpu_top |-> r.cpu_top, memory_top |-> r.memory_top]))

\* One element of the Repos list; the accumulator carries repo_name.
ReposElement(r, item) ==
    IF item.kind = "dict"
    THEN LET c == Cleaned(item.xs)
             named == {i \in 1..Len(c.keys) :
                         \/ Contains(Lower(c.keys[i]), W("repo"))
                         \/ Contains(c.keys[i], W("Active"))}
             total == IF Has(c, "Packages")
                      THEN (W("total") :> StrOf(c, "Packages", Empty)) @@ r.packages
                      ELSE r.packages
         IN [r EXCEPT
                !.packages = IF Has(c, "pm")
                             THEN (c.at[<<"pm">>].s :> Get(c, "pkgs", JInt(0))) @@ total
                             ELSE total,
                !.repo_name = IF named = {} THEN @
                              ELSE c.at[c.keys[CHOOSE i \in named :
                                                  \A j \in named : j <= i]]]
    ELSE IF item.kind = "list"
    THEN LET urls == SelectSeq(item.xs, LAMBDA u : u.kind = "str" /\ u.s # <<>>)
         IN [r EXCEPT !.repos = @ \o [i \in 1..Len(urls) |->
                                        [name |-> r.repo_name, url |-> urls[i]]]]
    ELSE r

ParseReposSection(value) ==
    LET f[i \in 0..Len(value.xs)] ==
            IF i = 0 THEN [packages |-> EmptyDict, repos |-> <<>>, repo_name |-> Empty]
            ELSE ReposElement(f[i - 1], value.xs[i])
    IN Let(f[IF value.kind = "list" THEN Len(value.xs) ELSE 0],
           LAMBDA done : Ok([packages |-> done.packages, repos |-> done.repos]))

UsbItem(r, c) ==
    IF Has(c, "Hub")
    THEN Ok([r EXCEPT !.hubs = Append(@,
            [name |-> Get(c, "Hub", Empty), info |-> Get(c, "info", Empty),
             ports |-> Get(c, "ports", Empty), rev |-> Get(c, "rev", Empty),
             speed |-> Get(c, "speed", Empty), lanes |-> Get(c, "lanes", Empty),
             mode |-> Get(c, "mode", Empty), chip_id |-> Get(c, "chip-ID", Empty),
             class_id |-> Get(c, "class-ID", Empty)])])
    ELSE IF Has(c, "Device")
    THEN Ok([r EXCEPT !.devices = Append(@,
            [name |-> Get(c, "Device", Empty), info |-> Get(c, "info", Empty),
             type |-> Get(c, "type", Empty), driver |-> Get(c, "driver", Empty),
             interfaces |-> Get(c, "interfaces", Empty), rev |-> Get(c, "rev", Empty),
             speed |-> Get(c, "speed", Empty), lanes |-> Get(c, "lanes", Empty),
             mode |-> Get(c, "mode", Empty), power |-> Get(c, "power", Empty),
             chip_id |-> Get(c, "chip-ID", Empty),
             class_id |-> Get(c, "class-ID", Empty),
             serial |-> Get(c, "serial", Empty)])])
    ELSE Ok(r)

ParseUsbSection(value) == FoldItems(UsbItem, [devices |-> <<>>, hubs |-> <<>>], value)

-----------------------------------------------------------------------------
(* InxiParser._extract_pci_devices *)

PciEntry(device, bus_id, category, default_class) ==
    [name |-> Field(device, "name", Empty), vendor |-> Field(device, "vendor", Empty),
     driver |-> Field(device, "driver", Empty), bus_id |-> bus_id,
     chip_id |-> Field(device, "chip_id", Empty),
     class_id |-> Field(device, "class_id", S(default_class)),
     category |-> category,
     pcie_gen |-> Field(device, "pcie_gen", Empty),
     pcie_speed |-> Field(device, "pcie_speed", Empty),
     pcie_lanes |-> Field(device, "pcie_lanes", Empty)]

\* x in bus_id, for a one-character x: TypeError on a number.
CharIn(x, bus_id) ==
    CASE bus_id.kind = "str" -> Ok(Contains(bus_id.s, <<x>>))
      [] bus_id.kind = "list" ->
            Ok(\E i \in 1..Len(bus_id.xs) :
                  bus_id.xs[i].kind = "str" /\ bus_id.xs[i].s = <<x>>)
      [] bus_id.kind = "dict" ->
            Ok(\E i \in 1..Len(bus_id.xs) : bus_id.xs[i][1] = <<x>>)
      [] OTHER -> Raise("TypeError")

\* "Only include PCI devices (bus_id format like XX:XX.X)"
IsPciBusId(bus_id) ==
    IF ~Truthy(bus_id) THEN Ok(FALSE)
    ELSE IF ~CharIn(":", bus_id).ok THEN Raise("TypeError")
    ELSE Ok(CharIn(":", bus_id).val /\ ~CharIn("-", bus_id).val)

\* PciScan without the seen_bus_ids test.
PciScanNoDedup(entries, devices, category, default_class, only_pci) ==
    Ok(entries \o [i \in 1..Len(devices) |->
                    PciEntry(devices[i], Field(devices[i], "bus_id", Empty),
                             category, default_class)])

\* One source list appended to the entries so far; only_pci is FALSE for the
\* GPU list, which takes every non-empty bus_id.  bus_id in seen_bus_ids
\* raises TypeError on a list or a dict.
PciScan(entries, devices, category, default_class, only_pci) ==
    LET f[i \in 0..Len(devices)] ==
            IF i = 0 THEN Ok(entries)
            ELSE LET prev == f[i - 1]
                     bus_id == Field(devices[i], "bus_id", Empty)
                     wanted == IF only_pci THEN IsPciBusId(bus_id)
                               ELSE Ok(Truthy(bus_id))
                     seen_bus_ids == {prev.val[k].bus_id : k \in 1..Len(prev.val)}
                 IN IF ~prev.ok THEN prev
                    ELSE IF ~wanted.ok THEN wanted
                    ELSE IF ~wanted.val THEN prev
                    ELSE IF bus_id.kind \in {"list", "dict"} THEN Raise("TypeError")
                    ELSE IF bus_id \in seen_bus_ids THEN prev
                    ELSE Ok(Append(prev.val,
                                   PciEntry(devices[i], bus_id, category, default_class)))
    IN f[Len(devices)]

\* devices.sort(key=lambda d: d.get("bus_id", "")): TypeError when a str and a
\* number are compared.
PciSort(entries) ==
    LET kinds == {entries[i].bus_id.kind : i \in 1..Len(entries)}
    IN IF kinds \subseteq {"str"}
       THEN Ok(SortSeq(entries, LAMBDA d, e : TextLess(d.bus_id.s, e.bus_id.s)))
       ELSE IF kinds \subseteq {"int", "float"}
       THEN Ok(SortSeq(entries, LAMBDA d, e :
                (IF d.bus_id.kind = "int" THEN d.bus_id.n * Scale ELSE d.bus_id.n)
                < (IF e.bus_id.kind = "int" THEN e.bus_id.n * Scale ELSE e.bus_id.n)))
       ELSE Raise("TypeError")

\* parsed_data.get(section, {}).get("devices", [])
DevicesOf(parsed_data, section) ==
    IF section \in DOMAIN parsed_data /\ "devices" \in DOMAIN parsed_data[section]
    THEN parsed_data[section]["devices"]
    ELSE <<>>

\* The scan with the Audio list taken before the GPU list.
ExtractPciDevicesAudioFirst(parsed_data) ==
    Then(PciScan(<<>>, DevicesOf(parsed_data, "audio"), "Audio", "0403", TRUE),
         LAMBDA audio :
    Then(PciScan(audio, DevicesOf(parsed_data, "gpu"), "Graphics", "0300", FALSE),
         LAMBDA gpu :
    Then(PciScan(gpu, DevicesOf(parsed_data, "network"), "Network", "0200", TRUE),
         LAMBDA network :
    Then(PciSort(network),
         LAMBDA devices : Ok([devices |-> devices, count |-> Len(devices)])))))

ExtractPciDevices(parsed_data) ==
    Then(PciScan(<<>>, DevicesOf(parsed_data, "gpu"), "Graphics", "0300", FALSE),
         LAMBDA gpu :
    Then(PciScan(gpu, DevicesOf(parsed_data, "audio"), "Audio", "0403", TRUE),
         LAMBDA audio :
    Then(PciScan(audio, DevicesOf(parsed_data, "network"), "Network", "0200", TRUE),
         LAMBDA network :
    Then(PciSort(network),
         LAMBDA devices : Ok([devices |-> devices, count |-> Len(devices)])))))

-----------------------------------------------------------------------------
(* InxiParser.parse_full *)

CategoryKeys ==
    {"cpu", "gpu", "memory", "audio", "network", "disk", "machine", "system",
     "battery", "sensors", "bluetooth"}

\* The pre-seeded result of lines 60-72.
SeededResult == [k \in CategoryKeys |-> EmptyDict]

\* if not data or not isinstance(data, list)
InvalidData(d) == ~Truthy(d) \/ d.kind # "list"

\* result[key] = parsed, for the parser's Ok(parsed)
Store(res, key, parsed) == Then(parsed, LAMBDA val : Ok((key :> val) @@ res))

\* The if/elif chain on one (key, value) pair of a section.  env holds the
\* answers of the live queries a parser makes.
Dispatch(res, key, value, full_data, env) ==
    LET section_name == CleanKey(key)
        In(w) == Contains(section_name, W(w))
    IN IF In("CPU") THEN Store(res, "cpu", ParseCpuSection(value))
       ELSE IF In("Graphics") THEN Store(res, "gpu", ParseGpuSection(value))
       ELSE IF In("Memory") THEN Store(res, "memory", ParseMemorySection(value))
       ELSE IF In("Audio") THEN Store(res, "audio", ParseAudioSection(value))
       ELSE IF In("Network")
       THEN Store(res, "network", ParseNetworkSection(value, env))
       ELSE IF In("Drives")
       THEN Store(res, "disk", ParseDiskSection(value, full_data))
       ELSE IF In("System")
       THEN Store(res, "system", ParseSystemSection(value, env.extra))
       ELSE IF In("Machine") THEN Store(res, "machine", ParseMachineSection(value))
       ELSE IF In("Battery") THEN Store(res, "battery", ParseBatterySection(value))
       ELSE IF In("Sensors")
       THEN Store(res, "sensors", ParseSensorsSection(value, env.sensors_cmd))
       ELSE IF In("Info")
       THEN Then(ParseInfoSection(value),
                 LAMBDA info_data : Ok([res EXCEPT !["system"] = info_data @@ @]))
       ELSE IF In("Processes")
       THEN Store(res, "processes", ParseProcessesSection(value))
       ELSE IF In("Repos") THEN Store(res, "repos", ParseReposSection(value))
       ELSE IF In("USB") THEN Store(res, "usb_inxi", ParseUsbSection(value))
       ELSE IF In("Bluetooth")
       THEN Store(res, "bluetooth", ParseBluetoothSection(value))
       ELSE Ok(res)

\* One turn of "for section in data": every pair of the section.
ProcessSection(res, section, full_data, env) ==
    Then(SectionPairs(section),
         LAMBDA ps :
            LET g[j \in 0..Len(ps)] ==
                    IF j = 0 THEN Ok(res)
                    ELSE Then(g[j - 1],
                              LAMBDA r : Dispatch(r, ps[j][1], ps[j][2], full_data, env))
            IN g[Len(ps)])

-----------------------------------------------------------------------------
(* The state machine of one parse_full(data) call.
     pc = "start"  : before line 60
     pc = "loop"   : in "for section in data", idx the next section
     pc = "done"   : returned, result the returned mapping
     pc = "raised" : left by the exception exc                              *)

\* The answers the live queries can give: every query failing, every query
\* answering.
EnvFail ==
    [ip1 |-> [ok |-> FALSE, map |-> EmptyDict],
     ip2 |-> [ok |-> FALSE, map |-> EmptyDict],
     route |-> RoutingDefaults,
     extra |-> [shell |-> Empty],
     sensors_cmd |-> Empty]

EnvLive ==
    [ip1 |-> IpAddrAnswer("ok"),
     ip2 |-> IpAddrAnswer("ok"),
     route |-> [gateway |-> S("gw"), dns_servers |-> <<S("dns")>>,
                gateway_interface |-> S("eth0")],
     extra |-> [uptime |-> S("1h"), hostname |-> S("host"), shell |-> S("bash"),
                install_date |-> S("date")],
     sensors_cmd |-> S("sensors")]

EnvPool == {EnvFail, EnvLive}

\* The outcomes of the queries of one call: the two "ip -j addr" runs (for
\* the devices and for the virtual devices), the routing queries, the extra
\* system information and the sensors output.
QueriesFail ==
    [ip_devices |-> "missing", ip_virtual |-> "missing", ip_route |-> "missing",
     resolvectl |-> "missing", resolv_conf |-> "absent",
     extra |-> [shell |-> Empty], sensors_cmd |-> Empty]

QueriesLive ==
    [ip_devices |-> "ok", ip_virtual |-> "ok", ip_route |-> "ok",
     resolvectl |-> "ok", resolv_conf |-> "ok",
     extra |-> [uptime |-> S("1h"), hostname |-> S("host"), shell |-> S("bash"),
                install_date |-> S("date")],
     sensors_cmd |-> S("sensors")]

QueryPool == {QueriesFail, QueriesLive}

\* What the parsers get from the queries q.
Env(q) ==
    [ip1 |-> IpAddrAnswer(q.ip_devices),
     ip2 |-> IpAddrAnswer(q.ip_virtual),
     route |-> GetNetworkRoutingInfo(q),
     extra |-> q.extra,
     sensors_cmd |-> q.sensors_cmd]

\* Lines 60-76: seed the result; return it at once for invalid data.
Enter ==
    /\ pc = "start"
    /\ result' = SeededResult
    /\ pc' = IF InvalidData(data) THEN "done" ELSE "loop"
    /\ idx' = 1
    /\ UNCHANGED <<data, exc>>
    /\ UNCHANGED outside

\* Lines 79-115: one section of the document.
NextSection ==
    /\ pc = "loop"
    /\ idx <= Len(data.xs)
    /\ Let(ProcessSection(result, data.xs[idx], data.xs, Env(queries)),
           LAMBDA out :
              IF out.ok
              THEN /\ result' = out.val
                   /\ idx' = idx + 1
                   /\ UNCHANGED <<pc, exc>>
              ELSE /\ pc' = "raised"
                   /\ exc' = out.exc
                   /\ UNCHANGED <<result, idx>>)
    /\ UNCHANGED data
    /\ UNCHANGED outside

\* Lines 117-120 in a parser that kept what it returned in self._cache.
SynthesizeMemoizing ==
    /\ pc = "loop"
    /\ idx > Len(data.xs)
    /\ Let(ExtractPciDevices(result),
           LAMBDA pci :
              IF pci.ok
              THEN /\ result' = ("pci_inxi" :> pci.val) @@ result
                   /\ cache' = ("parsed" :> result')
                   /\ pc' = "done"
                   /\ UNCHANGED exc
              ELSE /\ pc' = "raised"
                   /\ exc' = pci.exc
                   /\ UNCHANGED <<result, cache>>)
    /\ UNCHANGED <<data, idx, queries, returned, collector, export, settings, sidebar, share, inxi>>

\* Lines 117-120: the consolidated PCI list, then return.
Synthesize ==
    /\ pc = "loop"
    /\ idx > Len(data.xs)
    /\ Let(ExtractPciDevices(result),
           LAMBDA pci :
              IF pci.ok
              THEN /\ result' = ("pci_inxi" :> pci.val) @@ result
                   /\ pc' = "done"
                   /\ UNCHANGED exc
              ELSE /\ pc' = "raised"
                   /\ exc' = pci.exc
                   /\ UNCHANGED result)
    /\ UNCHANGED <<data, idx>>
    /\ UNCHANGED outside

Next == Enter \/ NextSection \/ Synthesize

\* No collect_all call in progress.
CollectorIdle ==
    [pc |-> "idle", data |-> EmptyDict, pending |-> {}, outcomes |-> EmptyDict]

\* A new parser about to be called on a document of docs under the query
\* outcomes of pool.
InitParser(docs, pool) ==
    /\ data \in docs
    /\ pc = "start"
    /\ idx = 1
    /\ result = EmptyDict
    /\ exc = ""
    /\ queries \in pool
    /\ cache = EmptyDict
    /\ returned = <<>>

\* No export or share in progress.
ExportIdle == [pc |-> "idle"]

\* No AppConfig object and no configuration file.
NoSettings ==
    [file |-> [exists |-> FALSE], objects |-> <<>>, last |-> [op |-> "none"],
     latest |-> EmptyDict, clean |-> TRUE]

\* Nothing in progress in the user interface.
\* No sidebar being rendered.
SidebarIdle == [pc |-> "idle"]

\* No share started.
ShareIdle == [pc |-> "idle"]

\* No collect call in progress.
InxiIdle == [pc |-> "idle"]

InitWindow ==
    /\ export = ExportIdle
    /\ settings = NoSettings
    /\ sidebar = SidebarIdle
    /\ share = ShareIdle
    /\ inxi = InxiIdle

\* The first call on a new parser, made directly.
InitCall(docs, pool) ==
    InitParser(docs, pool) /\ collector = CollectorIdle /\ InitWindow

InitWith(docs) == InitCall(docs, QueryPool)

-----------------------------------------------------------------------------
(* Documents *)

\* A raw key "00<pos>#1#1#<name>".
KeyT(pos, text) == <<"0", "0", DigitChar(pos), "#", "1", "#", "1", "#">> \o text
Key(pos, name) == KeyT(pos, <<name>>)

\* The pairs <<Key(pos + i, names[i]), values[i]>> of the fields that are given
\* (a field whose value is the word "absent" is left out of the item).
Absent == S("absent")
Fields(pos, names, values) ==
    LET given == SelectSeq([i \in 1..Len(names) |-> i], LAMBDA i : values[i] # Absent)
    IN [j \in 1..Len(given) |-> <<Key(pos + given[j], names[given[j]]), values[given[j]]>>]

\* A section {key: value} of the document.
Section(pos, name, value) == JDict(<<<<Key(pos, name), value>>>>)

\* The sequences over pool of length 0..n.
SeqsUpTo(pool, n) == UNION {[1..k -> pool] : k \in 0..n}

-----------------------------------------------------------------------------
(* Documents of any content: None, values that are not lists, and lists of up
   to MaxSections sections, well-formed or not. *)

MaxSections == 2

\* A section holding the one item {names[i]: values[i]}.
OneItem(name, names, values) ==
    Section(0, name, JList(<<JDict(Fields(0, names, values))>>))

WellFormedSections ==
    {OneItem("CPU", <<"model", "cores", "threads">>, <<S("Ryzen"), JInt(4), JInt(8)>>),
     OneItem("Graphics", <<"Device", "driver", "bus-ID">>,
             <<S("devA"), S("driverA"), JStr(<<"0", "1", ":", "0", "0", ".", "0">>)>>),
     OneItem("Memory", <<"total", "used">>,
             <<JStr(<<"1", "6", " ", "GiB">>), JStr(<<"8", " ", "GiB">>)>>),
     OneItem("Audio", <<"Device", "bus-ID", "class-ID">>,
             <<S("devB"), JStr(<<"0", "0", ":", "1", "f", ".", "3">>), S("0403")>>),
     OneItem("Network", <<"Device", "bus-ID">>,
             <<S("devA"), JStr(<<"0", "1", ":", "0", "0", ".", "0">>)>>),
     OneItem("Drives", <<"total", "used">>,
             <<JStr(<<"1", " ", "TiB">>),
               JStr(<<"x", " ", "(", "4", "1", ".", "1", "%", ")">>)>>),
     OneItem("System", <<"Kernel", "Distro">>, <<S("6.1"), S("BigLinux")>>),
     OneItem("Machine", <<"Type", "System">>, <<S("Laptop"), S("X")>>),
     OneItem("Battery", <<"ID", "charge">>, <<S("BAT0"), JStr(<<"5", "0", "%">>)>>),
     OneItem("Sensors", <<"cpu">>, <<JStr(<<"4", "5", ".", "0">>)>>),
     OneItem("Info", <<"Processes", "Shell">>, <<JInt(300), S("bash")>>),
     OneItem("Bluetooth", <<"Device", "driver">>, <<S("bt"), S("btusb")>>),
     OneItem("Weather", <<"temp">>, <<S("x")>>)}

\* Sections of the wrong shape: a section value of None, a section that is a
\* string, and a section whose list holds a number.
MalformedSections ==
    {Section(0, "CPU", JNone), S("text"), Section(0, "CPU", JList(<<JInt(5)>>))}

SectionPool == WellFormedSections \cup MalformedSections

Docs ==
    {JNone, S("text"), JInt(5), JDict(<<>>)}
    \cup {JList(sections) : sections \in SeqsUpTo(SectionPool, MaxSections)}

Spec == InitWith(Docs) /\ [][Next]_vars

\* C1: for any input, parse_full returns, without raising, a mapping that has
\* the eleven category keys, each holding a mapping.
C1_AlwaysReturnsSchema ==
    /\ pc # "raised"
    /\ pc = "done" =>
          /\ CategoryKeys \subseteq DOMAIN result
          /\ \A k \in CategoryKeys : DOMAIN result[k] \subseteq STRING

\* C2: for every input, the returned mapping has the key pci_inxi, whose
\* value has a devices list and a count.
C2_PciKeyAlwaysPresent ==
    pc = "done" =>
        /\ "pci_inxi" \in DOMAIN result
        /\ {"devices", "count"} \subseteq DOMAIN result["pci_inxi"]

\* The fields each section parser declares in its initial record.
DeclaredFields(k) ==
    CASE k = "cpu" -> DOMAIN CpuDefaults
      [] k = "gpu" -> DOMAIN GpuDefaults
      [] k = "memory" -> DOMAIN MemoryDefaults
      [] k = "audio" -> {"devices"}
      [] k = "network" -> {"devices", "virtual_devices"}
      [] k = "disk" -> DOMAIN DiskDefaults
      [] k = "machine" -> DOMAIN MachineDefaults
      [] k = "system" -> DOMAIN SystemDefaults
      [] k = "battery" -> {"present", "batteries"}
      [] k = "sensors" -> {"temps", "fans", "sensors_cmd"}
      [] k = "bluetooth" -> {"devices"}

\* The section names of the document (of its sections that are dicts).
SectionNames ==
    IF data.kind # "list" THEN {}
    ELSE {CleanKey(data.xs[i].xs[j][1]) :
            i \in {n \in 1..Len(data.xs) : data.xs[n].kind = "dict"}, j \in 1..1}

\* C3: every category record of the result carries every field of its
\* declared shape; with no CPU section, result["cpu"] still has model "",
\* cores 0, threads 0 and core_speeds {}.
C3_DeclaredFieldsPresent ==
    pc = "done" =>
        /\ \A k \in CategoryKeys : DeclaredFields(k) \subseteq DOMAIN result[k]
        /\ (\A name \in SectionNames : ~Contains(name, W("CPU"))) =>
              /\ result["cpu"].model = Empty
              /\ result["cpu"].cores = 0
              /\ result["cpu"].threads = 0
              /\ result["cpu"].core_speeds = EmptyDict

-----------------------------------------------------------------------------
(* CPU documents: one CPU section of up to MaxCpuItems items. *)

MaxCpuItems == 2

\* The per-thread speed keys of an item: none, one, four, and "1" with "01".
CpuSpeedKeys ==
    {<<>>, <<W("0")>>, <<W("0"), W("1"), W("2"), W("3")>>, <<W("1"), <<"0", "1">>>>}

CpuSpeedPairs(keys) == [i \in 1..Len(keys) |-> <<KeyT(i, keys[i]), JInt(2400)>>]

CpuItemPool ==
    {JDict(CpuSpeedPairs(k) \o Fields(4, <<"threads", "cores">>, <<t, c>>)) :
        k \in CpuSpeedKeys, t \in {Absent, JInt(8)}, c \in {Absent, JInt(4)}}
    \cup {JDict(Fields(0, <<"threads", "cores">>, <<JInt(0), JInt(0)>>)),
          JDict(CpuSpeedPairs(<<W("0")>>)
                \o Fields(4, <<"threads", "cores">>, <<S("abc"), JNone>>)),
          JDict(Fields(0, <<"Info">>, <<JStr(<<"Quad", " ", "Core">>)>>)),
          JDict(Fields(0, <<"Info", "cores">>, <<JStr(<<"6", "-", "core">>), S("x")>>))}

CpuDocs == {JList(<<Section(0, "CPU", JList(items))>>) :
                items \in SeqsUpTo(CpuItemPool, MaxCpuItems)}

SpecCpu == InitWith(CpuDocs) /\ [][Next]_vars

\* The cleaned items of the CPU section of a CPU document.
CpuInput == [i \in 1..Len(data.xs[1].xs[1][2].xs) |->
                Cleaned(data.xs[1].xs[1][2].xs[i].xs)]

\* The items of the cleaned items c that report name as an integer, and the
\* last value reported (0 when there is none).
CpuReporting(c, name) ==
    {i \in 1..Len(c) : Has(c[i], name) /\ PyInt(c[i].at[<<name>>]).ok}

CpuReported(c, name) ==
    LET reporting == CpuReporting(c, name)
    IN IF reporting = {} THEN 0
       ELSE LET i == CHOOSE k \in reporting : \A j \in reporting : j <= k
            IN PyInt(c[i].at[<<name>>]).val

\* The thread numbers of the per-thread speed entries of all items.
CpuSpeedEntries(c) ==
    {DigitsToInt(k) : k \in {q \in UNION {DOMAIN c[i].at : i \in 1..Len(c)} :
                                q # <<>> /\ AllDigits(q)}}

CpuHasInfo(c) == {i \in 1..Len(c) : Has(c[i], "Info")}

\* C10: after _parse_cpu_section, threads is the number of distinct numeric
\* per-thread speed entries when no (non-zero) threads value was reported;
\* cores is threads // 2, or threads when that is 0, when no cores value and
\* no Info text was given and threads > 0; a reported non-zero threads value
\* and a reported non-zero cores value (not followed by an Info text of a later
\* item) are what the record holds.
C10_ThreadCoreFallback ==
    pc = "done" =>
        LET cpu == result["cpu"]
            half == cpu.threads \div 2
            c == CpuInput
            threads == CpuReported(c, "threads")
            cores == CpuReported(c, "cores")
            coresAt == CpuReporting(c, "cores")
        IN /\ threads = 0 => cpu.threads = Cardinality(CpuSpeedEntries(c))
           /\ threads # 0 => cpu.threads = threads
           /\ (coresAt = {} /\ CpuHasInfo(c) = {} /\ cpu.threads > 0)
              => cpu.cores = IF half = 0 THEN cpu.threads ELSE half
           /\ (cores # 0 /\ \A i \in CpuHasInfo(c) : \E j \in coresAt : i <= j)
              => cpu.cores = cores

\* Four speed entries and no threads, cores or Info field: threads 4, cores 2.
C10_Witness ==
    /\ pc = "done"
    /\ result["cpu"].threads = 4 /\ result["cpu"].cores = 2
    /\ LET c == CpuInput
       IN /\ CpuReporting(c, "threads") = {} /\ CpuReporting(c, "cores") = {}
          /\ CpuHasInfo(c) = {}
          /\ Cardinality(CpuSpeedEntries(c)) = 4

-----------------------------------------------------------------------------
(* PCI documents: a Graphics, an Audio and a Network section holding up to
   MaxPciDevices Device items between them. *)

MaxPciDevices == 3

PciSections == <<"Graphics", "Audio", "Network">>

BusA == <<"0", "1", ":", "0", "0", ".", "0">>
BusB == <<"0", "0", ":", "1", "f", ".", "3">>
BusUsb == <<"1", "-", "2", ":", "1">>

\* A Device item: name, vendor and driver go together.
PciItem(who, bus, class) ==
    JDict(Fields(0, <<"Device", "vendor", "driver", "bus-ID", "class-ID">>,
                 <<S("dev" \o who), S("vendor" \o who), S("driver" \o who),
                   JStr(bus), class>>))

PciItemPool ==
    {PciItem("A", BusA, Absent), PciItem("B", BusA, S("0380")),
     PciItem("A", BusB, S("0380")), PciItem("B", BusUsb, Absent)}

\* The document of a sequence of <<section number, item>> placements.
PciDoc(placed) ==
    JList([k \in 1..3 |->
            Section(k, PciSections[k],
                    JList([j \in 1..Len(SelectSeq(placed, LAMBDA q : q[1] = k)) |->
                            SelectSeq(placed, LAMBDA q : q[1] = k)[j][2]]))])

PciDocs == {PciDoc(placed) : placed \in SeqsUpTo((1..3) \X PciItemPool, MaxPciDevices)}

SpecPci == InitWith(PciDocs) /\ [][Next]_vars

PciList == result["pci_inxi"].devices

\* The source lists in priority order, with their category labels.
PciSources ==
    <<[category |-> "Graphics", devices |-> DevicesOf(result, "gpu")],
      [category |-> "Audio", devices |-> DevicesOf(result, "audio")],
      [category |-> "Network", devices |-> DevicesOf(result, "network")]>>

Carries(k, bus) == {i \in 1..Len(PciSources[k].devices) :
                        PciSources[k].devices[i].bus_id = bus}

\* The first source list that carries the bus address, and its first device
\* carrying it.
PciOrigin(bus) ==
    LET k == CHOOSE n \in 1..3 : Carries(n, bus) # {} /\ \A m \in 1..(n - 1) : Carries(m, bus) = {}
        i == CHOOSE n \in Carries(k, bus) : \A m \in Carries(k, bus) : n <= m
    IN [category |-> PciSources[k].category, device |-> PciSources[k].devices[i]]

\* C4: no two entries of pci_inxi.devices have the same bus_id.
C4_BusIdUnique ==
    pc = "done" =>
        \A i, j \in 1..Len(PciList) : PciList[i].bus_id = PciList[j].bus_id => i = j

\* A bus address carried by a GPU device and an Audio device, listed once.
C4_Witness ==
    /\ pc = "done"
    /\ \E b \in {BusA, BusB} :
          /\ Carries(1, JStr(b)) # {} /\ Carries(2, JStr(b)) # {}
          /\ \E i \in 1..Len(PciList) : PciList[i].bus_id = JStr(b)

\* C5: the entry of a bus address is built from the first device carrying it
\* in the highest-priority source list (GPU, then Audio, then Network): its
\* category, name, vendor and driver are that device's.
C5_FirstSeenWins ==
    pc = "done" =>
        \A i \in 1..Len(PciList) :
            LET o == PciOrigin(PciList[i].bus_id)
            IN /\ PciList[i].category = o.category
               /\ PciList[i].name = o.device.name
               /\ PciList[i].vendor = o.device.vendor
               /\ PciList[i].driver = o.device.driver

\* A bus address carried by a GPU device and, under another name, by an Audio
\* device: the entry is the GPU device's.
C5_Witness ==
    /\ pc = "done"
    /\ \E i \in 1..Len(PciList) :
          /\ Carries(1, PciList[i].bus_id) # {}
          /\ \E n \in Carries(2, PciList[i].bus_id) :
                PciSources[2].devices[n].name # PciOrigin(PciList[i].bus_id).device.name
          /\ PciList[i].category = "Graphics"

\* The class-ID the document gives the Device item of a section that has the
\* given name and bus address (Absent when the item has none).
PciInputClass(category, name, bus) ==
    LET k == CHOOSE n \in 1..3 : PciSections[n] = category
        items == data.xs[k].xs[1][2].xs
        i == CHOOSE n \in 1..Len(items) :
                /\ Get(Cleaned(items[n].xs), "Device", Absent) = name
                /\ Get(Cleaned(items[n].xs), "bus-ID", Absent) = bus
    IN Get(Cleaned(items[i].xs), "class-ID", Absent)

PciDefaultClass(category) ==
    CASE category = "Graphics" -> S("0300")
      [] category = "Audio" -> S("0403")
      [] category = "Network" -> S("0200")

\* C6: an entry whose source device carried no class-ID has the default code
\* of its section, and one whose source device carried a class-ID keeps it.
C6_ClassIdDefault ==
    pc = "done" =>
        \A i \in 1..Len(PciList) :
            LET given == PciInputClass(PciList[i].category, PciList[i].name,
                                       PciList[i].bus_id)
            IN PciList[i].class_id = IF given = Absent
                                     THEN PciDefaultClass(PciList[i].category)
                                     ELSE given

-----------------------------------------------------------------------------
(* Usage documents: a Memory section whose first item is the RAM summary, or
   a Drives, a Partition and a Swap section of one item each. *)

MemTotalPool ==
    {Absent, JStr(<<"1", "6", " ", "GiB">>), JStr(<<"8", " ", "GB">>),
     JStr(<<"1", "5", ".", "5", " ", "GiB">>), JStr(<<"0", " ", "GiB">>),
     JStr(<<"1", "0", "2", "4", " ", "MiB">>),
     JStr(<<"1", ".", "2", ".", "3", " ", "GiB">>), JStr(<<"n/a", " ", "GiB">>)}

MemUsedPool ==
    {Absent, JStr(<<"8", " ", "GiB">>), JStr(<<"3", "2", " ", "GiB">>),
     JStr(<<"7", ".", "7", "5", " ", "GiB", " ", "(", "5", "0", ".", "0", "%", ")">>),
     JStr(<<"0", ".", "0", "5", " ", "GiB">>), JStr(<<"5", "1", "2", " ", "MiB">>),
     JStr(<<"1", ".", "2", ".", "3", " ", "GiB">>), S("n/a")}

\* The module item that may follow the RAM summary.
MemModulePool ==
    {<<>>, <<JDict(Fields(0, <<"Device", "size">>, <<S("DIMM0"), JStr(<<"8", " ", "GiB">>)>>))>>}

MemDocs ==
    {JList(<<Section(0, "Memory",
                JList(<<JDict(Fields(0, <<"total", "used">>, <<t, u>>))>> \o m))>>) :
        t \in MemTotalPool, u \in MemUsedPool, m \in MemModulePool}

DiskUsedPool ==
    {Absent, JStr(<<"1", ".", "1", "2", " ", "TiB", " ", "(", "4", "1", ".", "1", "%", ")">>),
     JStr(<<"x", " ", "(", "1", "0", "0", "%", ")">>),
     JStr(<<"x", " ", "(", "1", "5", "0", "%", ")">>),
     JStr(<<"x", " ", "(", "1", ".", "2", ".", "3", "%", ")">>),
     JStr(<<"x", " ", "(", ".", "%", ")">>), JStr(<<"5", " ", "GiB">>)}

DiskDocs ==
    {JList(<<OneItem("Drives", <<"total", "used">>, <<JStr(<<"1", " ", "TiB">>), d>>),
             OneItem("Partition", <<"ID", "used">>, <<S("/"), p>>),
             OneItem("Swap", <<"ID", "used">>, <<S("swap-1"), w>>)>>) :
        d \in DiskUsedPool, p \in DiskUsedPool, w \in DiskUsedPool}

SpecUsage == InitWith(MemDocs \cup DiskDocs) /\ [][Next]_vars

\* The text of a field of the first item of section k ("" when not given).
UsageText(k, name) == Get(Cleaned(data.xs[k].xs[1][2].xs[1].xs), name, Empty).s

IsMemDoc == Contains(CleanKey(data.xs[1].xs[1][1]), W("Memory"))

\* The percentage fields of the result.
PercentFields ==
    (IF "used_percent" \in DOMAIN result["memory"]
     THEN {result["memory"].used_percent} ELSE {})
    \cup (IF "used_percent" \in DOMAIN result["disk"]
          THEN {result["disk"].used_percent}
               \cup {result["disk"].partitions[i].used_percent :
                        i \in 1..Len(result["disk"].partitions)}
               \cup {result["disk"].swap[i].used_percent :
                        i \in 1..Len(result["disk"].swap)}
          ELSE {})

\* C7: every percentage field of the result is 0 or a number in [0, 100].
C7_PercentInRange ==
    pc = "done" =>
        \A v \in PercentFields :
            \/ v = JInt(0)
            \/ v.kind = "float" /\ 0 <= v.n /\ v.n <= 100 * Scale

\* A text whose "(...%)" group is not a number.
MalformedPercent(t) == PercentMatch(t) # <<>> /\ ~PyFloat(PercentMatch(t)).ok

\* A text with a run of digits and dots that is not a number.
MalformedNumber(t) == NumRun(t) # <<>> /\ ~PyFloat(NumRun(t)).ok

\* C8: a percentage text that holds no well-formed number does not make the
\* parse raise; the percentage field stays 0 and parse_full completes.
C8_MalformedPercentAbsorbed ==
    /\ pc # "raised"
    /\ (/\ pc = "done" /\ IsMemDoc
        /\ \/ MalformedNumber(UsageText(1, "total"))
           \/ MalformedNumber(UsageText(1, "used")))
       => result["memory"].used_percent = JInt(0)
    /\ (pc = "done" /\ ~IsMemDoc) =>
          /\ MalformedPercent(UsageText(1, "used"))
                => result["disk"].used_percent = JInt(0)
          /\ MalformedPercent(UsageText(2, "used"))
                => result["disk"].partitions[1].used_percent = JInt(0)
          /\ MalformedPercent(UsageText(3, "used"))
                => result["disk"].swap[1].used_percent = JInt(0)

\* C9: used_percent of memory is used / total * 100 rounded to one decimal
\* when the RAM summary gives a total and a used text with a numeral and the
\* total is above zero; it is 0, and nothing is raised, when the total is
\* missing, empty or not numeric.
C9_MemoryUsedPercent ==
    IsMemDoc =>
        /\ pc # "raised"
        /\ pc = "done" =>
              LET total == NumRun(UsageText(1, "total"))
                  used == NumRun(UsageText(1, "used"))
              IN /\ (/\ total # <<>> /\ PyFloat(total).ok /\ PyFloat(total).val > 0
                     /\ used # <<>> /\ PyFloat(used).ok)
                    => result["memory"].used_percent =
                          JFloat(RoundedPercent(PyFloat(used).val, PyFloat(total).val))
                 /\ (total = <<>> \/ ~PyFloat(total).ok)
                    => result["memory"].used_percent = JInt(0)

-----------------------------------------------------------------------------
(* _clean_key on its own: a key is cleaned, and the cleaned key is cleaned
   again.
     pc = "key"       : data the raw key, nothing cleaned yet
     pc = "cleaned"   : result = <<_CleanKey(key)>>
     pc = "recleaned" : result = <<_CleanKey(key), _CleanKey(_CleanKey(key))>> *)

MaxKeyLen == 4

\* The characters of a raw key: the separator, a digit and a letter.
KeyChars == {"#", "1", "a"}

KeyTexts == SeqsUpTo(KeyChars, MaxKeyLen)

CleanOnce ==
    /\ pc = "key"
    /\ result' = <<CleanKey(data.s)>>
    /\ pc' = "cleaned"
    /\ UNCHANGED <<data, idx, exc>>
    /\ UNCHANGED outside

CleanAgain ==
    /\ pc = "cleaned"
    /\ result' = Append(result, CleanKey(result[1]))
    /\ pc' = "recleaned"
    /\ UNCHANGED <<data, idx, exc>>
    /\ UNCHANGED outside

NextKey == CleanOnce \/ CleanAgain

InitKey ==
    /\ data \in {JStr(k) : k \in KeyTexts}
    /\ pc = "key"
    /\ idx = 1
    /\ result = <<>>
    /\ exc = ""
    /\ queries = QueriesFail
    /\ cache = EmptyDict
    /\ returned = <<>>
    /\ collector = CollectorIdle
    /\ InitWindow

SpecKey == InitKey /\ [][NextKey]_vars

HasHash(t) == \E i \in 1..Len(t) : t[i] = "#"

\* C11: _clean_key returns, for a key with '#', exactly the text after the
\* last '#' (the key is some prefix, a '#', and the result, and the result
\* has no '#'); for a key without '#' it returns the key; the result never
\* contains '#'.
C11_CleanKeyLastSegment ==
    pc \in {"cleaned", "recleaned"} =>
        /\ ~HasHash(result[1])
        /\ HasHash(data.s) =>
              \E n \in 0..(Len(data.s) - 1) :
                  /\ data.s[n + 1] = "#"
                  /\ data.s = SubSeq(data.s, 1, n) \o <<"#">> \o result[1]
        /\ ~HasHash(data.s) => result[1] = data.s

C11_Witness ==
    /\ pc = "cleaned"
    /\ data.s = <<"a", "#", "1", "#">>
    /\ result = <<(<<>>)>>

\* C12: cleaning a cleaned key changes nothing.
C12_CleanKeyIdempotent ==
    pc = "recleaned" => result[2] = result[1]

C12_Witness ==
    /\ pc = "recleaned"
    /\ data.s = <<"1", "#", "#", "a">>
    /\ result[2] = <<"a">>

-----------------------------------------------------------------------------
(* Graphics documents: one Graphics section of up to MaxGpuItems items. *)

MaxGpuItems == 2

GpuItemFields(device, driver) ==
    JDict(Fields(0, <<"Device", "driver">>, <<device, driver>>))

\* Device items that match the webcam test only, the GPU test only, both
\* and neither, by the name and by the driver; an item whose Device is blank,
\* one whose Device is a number, and a Display item.
GpuItemPool ==
    {GpuItemFields(JStr(<<"Integrated", " ", "Webcam">>), S("uvcvideo")),
     GpuItemFields(JStr(<<"NVIDIA", " ", "GeForce", " ", "RTX", " ", "3", "0", "8", "0">>),
                   S("nvidia")),
     GpuItemFields(JStr(<<"AMD", " ", "Camera">>), Absent),
     GpuItemFields(S("devA"), S("driverA")),
     GpuItemFields(S("devA"), S("uvcvideo")),
     GpuItemFields(S("Webcam"), JStr(<<"i", "9", "1", "5">>)),
     GpuItemFields(JStr(<<"HD", " ", "Pro">>), Absent),
     GpuItemFields(Empty, S("uvcvideo")),
     GpuItemFields(JInt(5), S("driverA")),
     JDict(Fields(0, <<"Display", "server">>, <<S("x11"), S("Xorg")>>))}

GpuDocs ==
    {JList(<<Section(0, "Graphics", JList(items))>>) :
        items \in SeqsUpTo(GpuItemPool, MaxGpuItems)}

SpecGpu == InitWith(GpuDocs) /\ [][Next]_vars

\* The cleaned items of the Graphics section that have a Device, in order.
GpuInputDevices ==
    SelectSeq([i \in 1..Len(data.xs[1].xs[1][2].xs) |->
                  Cleaned(data.xs[1].xs[1][2].xs[i].xs)],
              LAMBDA c : Has(c, "Device"))

\* The webcam test and the GPU test of the claim on a cleaned item.
GpuMatchesWebcam(c) ==
    IsWebcam(Lower(Get(c, "Device", Empty).s), Lower(Get(c, "driver", Empty).s))

GpuMatchesGpu(c) ==
    IsGpu(Lower(Get(c, "Device", Empty).s), Lower(Get(c, "driver", Empty).s))

GpuNames(records) == [i \in 1..Len(records) |-> <<records[i].name, records[i].driver>>]

GpuInputNames(items) ==
    [i \in 1..Len(items) |-> <<Get(items[i], "Device", Empty), Get(items[i], "driver", Empty)>>]

\* C13: every Graphics item with a Device is in exactly one of gpu.webcams and
\* gpu.devices: in webcams iff it matches the webcam test and not the GPU
\* test, in devices in every other case (both tests or neither).
C13_WebcamOrDevice ==
    pc = "done" =>
        LET items == GpuInputDevices
            cams == SelectSeq(items, LAMBDA c : GpuMatchesWebcam(c) /\ ~GpuMatchesGpu(c))
            others == SelectSeq(items, LAMBDA c : ~GpuMatchesWebcam(c) \/ GpuMatchesGpu(c))
        IN /\ GpuNames(result["gpu"].webcams) = GpuInputNames(cams)
           /\ GpuNames(result["gpu"].devices) = GpuInputNames(others)
           /\ Len(result["gpu"].webcams) + Len(result["gpu"].devices) = Len(items)

\* A webcam and an item matching both tests, one in each list.
C13_Witness ==
    /\ pc = "done"
    /\ Len(result["gpu"].webcams) = 1
    /\ result["gpu"].webcams[1].name = JStr(<<"Integrated", " ", "Webcam">>)
    /\ Len(result["gpu"].devices) = 1
    /\ result["gpu"].devices[1].name = JStr(<<"AMD", " ", "Camera">>)

-----------------------------------------------------------------------------
(* parse_full as a function of the document and of the answers the live
   queries give during each section: what the call returns or raises. *)

ParseFull(d, envs) ==
    IF InvalidData(d) THEN Ok(SeededResult)
    ELSE LET f[i \in 0..Len(d.xs)] ==
                 IF i = 0 THEN Ok(SeededResult)
                 ELSE Then(f[i - 1],
                           LAMBDA r : ProcessSection(r, d.xs[i], d.xs, envs[i]))
         IN Then(f[Len(d.xs)],
                 LAMBDA r : Then(ExtractPciDevices(r),
                                 LAMBDA pci : Ok(("pci_inxi" :> pci) @@ r)))

\* What parse_full can do on the document d, over the answers of the queries.
Outcomes(d) ==
    {ParseFull(d, envs) : envs \in [1..(IF d.kind = "list" THEN Len(d.xs) ELSE 0) -> EnvPool]}

\* What the call of the current state did.
Outcome == IF pc = "raised" THEN Raise(exc) ELSE Ok(result)

-----------------------------------------------------------------------------
(* Frame documents: up to MaxFrameSections well-formed sections, and one
   section under a name no branch of the dispatch chain matches, placed
   anywhere among them. *)

MaxFrameSections == 1

dispatch_triggers ==
    {"CPU", "Graphics", "Memory", "Audio", "Network", "Drives", "System",
     "Machine", "Battery", "Sensors", "Info", "Processes", "Repos", "USB",
     "Bluetooth"}

\* The values of the unrecognised section.
UnknownValues ==
    {JNone, S("text"), JInt(5), JList(<<JInt(5)>>),
     JList(<<JDict(Fields(0, <<"Device", "bus-ID">>, <<S("devA"), JStr(BusA)>>))>>)}

UnknownSections == {Section(0, "Weather", v) : v \in UnknownValues}

InsertAt(s, i, e) == SubSeq(s, 1, i - 1) \o <<e>> \o SubSeq(s, i, Len(s))
RemoveAt(s, i) == SubSeq(s, 1, i - 1) \o SubSeq(s, i + 1, Len(s))

FrameDocs ==
    UNION {{JList(InsertAt(base, i, u)) : i \in 1..(Len(base) + 1), u \in UnknownSections} :
              base \in SeqsUpTo(WellFormedSections, MaxFrameSections)}

SpecFrame == InitWith(FrameDocs) /\ [][Next]_vars

\* A single-key section whose cleaned name has no dispatch trigger in it and
\* is not a Partition or Swap section.
Unrecognised(section) ==
    /\ section.kind = "dict"
    /\ Len(section.xs) = 1
    /\ \A w \in dispatch_triggers \cup {"Partition", "Swap"} :
          ~Contains(CleanKey(section.xs[1][1]), W(w))

\* C14: a document with an unrecognised single-key section does what the
\* document without that section does: it raises only if that one raises,
\* and returns the mapping that one returns.
C14_UnknownSectionIgnored ==
    pc \in {"done", "raised"} =>
        \A i \in 1..Len(data.xs) :
            Unrecognised(data.xs[i]) =>
                Outcome \in Outcomes(JList(RemoveAt(data.xs, i)))

-----------------------------------------------------------------------------
(* System documents: System and Info sections in every order. *)

MaxInfoSections == 3

InfoSectionPool ==
    {OneItem("System", <<"Kernel", "Distro">>, <<S("6.1"), S("BigLinux")>>),
     OneItem("Info", <<"Processes", "states">>, <<JInt(300), S("freeze")>>),
     OneItem("Info", <<"Packages", "inxi">>, <<JInt(1200), S("3.3")>>)}

InfoDocs == {JList(secs) : secs \in SeqsUpTo(InfoSectionPool, MaxInfoSections)}

SpecInfo == InitWith(InfoDocs) /\ [][Next]_vars

\* The cleaned name and the value of section i of the document.
SectionName(i) == CleanKey(data.xs[i].xs[1][1])
SectionValue(i) == data.xs[i].xs[1][2]

IsInfoSection(i) ==
    /\ Contains(SectionName(i), W("Info"))
    /\ ~Contains(SectionName(i), W("System"))

IsSystemSection(i) == Contains(SectionName(i), W("System"))

\* The fields section i supplies to result["system"]: those of the Info
\* record, or those a System record can have.
SuppliedFields(i) ==
    IF IsSystemSection(i) THEN DOMAIN SystemDefaults \cup DOMAIN EnvLive.extra
    ELSE IF IsInfoSection(i) THEN DOMAIN ParseInfoSection(SectionValue(i)).val
    ELSE {}

\* C15: every field an Info section contributed, and every field of the
\* System section, that no later section supplies again is in
\* result["system"] with the contributed value, in whatever order the System
\* and Info sections come.
C15_InfoMergesAdditively ==
    pc = "done" =>
        \A i \in 1..Len(data.xs) :
            /\ IsInfoSection(i) =>
                  \A k \in DOMAIN ParseInfoSection(SectionValue(i)).val :
                      (\A j \in (i + 1)..Len(data.xs) : k \notin SuppliedFields(j))
                      => /\ k \in DOMAIN result["system"]
                         /\ result["system"][k] = ParseInfoSection(SectionValue(i)).val[k]
            /\ IsSystemSection(i) =>
                  \A k \in DOMAIN SystemDefaults :
                      (\A j \in (i + 1)..Len(data.xs) : k \notin SuppliedFields(j))
                      => k \in DOMAIN result["system"]

-----------------------------------------------------------------------------
(* Network documents: one Network section of up to MaxNetItems items, parsed
   under every combination of outcomes of the live queries. *)

MaxNetItems == 2

NetItemPool ==
    {JDict(Fields(0, <<"Device", "bus-ID">>, <<S("devA"), JStr(BusA)>>)),
     JDict(Fields(0, <<"IF", "state">>, <<S("eth0"), S("up")>>)),
     JDict(Fields(0, <<"IF", "state">>, <<JStr(<<"docker", "0">>), S("up")>>))}

NetDocs ==
    {JList(<<Section(0, "Network", JList(items))>>) :
        items \in SeqsUpTo(NetItemPool, MaxNetItems)}

NetQueryPool ==
    [ip_devices : QueryOutcomes, ip_virtual : QueryOutcomes, ip_route : QueryOutcomes,
     resolvectl : QueryOutcomes, resolv_conf : ResolvConfOutcomes,
     extra : {QueriesFail.extra}, sensors_cmd : {Empty}]

SpecNet == InitCall(NetDocs, NetQueryPool) /\ [][Next]_vars

\* What the item loop of _parse_network_section builds from the Network
\* section of the document, before any query is made.
NetPrimary ==
    Let(FoldItems(NetworkItem,
                  [devices |-> <<>>, virtual_devices |-> <<>>, cur |-> <<>>],
                  data.xs[1].xs[1][2]),
        LAMBDA r : IF r.ok
                   THEN Ok([devices |-> r.val.devices \o r.val.cur,
                            virtual_devices |-> r.val.virtual_devices])
                   ELSE r)

\* C16: a failing live query never makes the Network parse raise; with
\* "ip -j addr" failed the devices (the virtual devices) are exactly those of
\* the primary parse, with "ip route" failed gateway and gateway_interface
\* are "", and with resolvectl and the resolv.conf read both failed
\* dns_servers is empty.
C16_QueryFailureAbsorbed ==
    /\ pc = "raised" => ~NetPrimary.ok
    /\ pc = "done" =>
          /\ queries.ip_devices # "ok" =>
                result["network"].devices = NetPrimary.val.devices
          /\ queries.ip_virtual # "ok" =>
                result["network"].virtual_devices = NetPrimary.val.virtual_devices
          /\ queries.ip_route # "ok" =>
                /\ result["network"].gateway = Empty
                /\ result["network"].gateway_interface = Empty
          /\ (queries.resolvectl # "ok" /\ queries.resolv_conf # "ok") =>
                result["network"].dns_servers = <<>>

\* "ip -j addr" timed out for the devices and answered for the virtual
\* devices, the routing query found no binary: the interface keeps its empty
\* ip, the virtual one got its address, the gateway is "".
C16_Witness ==
    /\ pc = "done"
    /\ queries.ip_devices = "timeout"
    /\ queries.ip_virtual = "ok"
    /\ queries.ip_route = "missing"
    /\ Len(result["network"].devices) = 1
    /\ "IF" \in DOMAIN result["network"].devices[1]
    /\ result["network"].devices[1].IF = S("eth0")
    /\ result["network"].devices[1].ip = Empty
    /\ Len(result["network"].virtual_devices) = 1
    /\ result["network"].virtual_devices[1].ip = S("ip4d")
    /\ result["network"].gateway = Empty

-----------------------------------------------------------------------------
(* HardwareCollector.collect_all (src/app/collectors/__init__.py): one inxi
   run, parse_full on its data, then the five independent collectors.
     collector.pc = "inxi"     : before self.inxi.collect (line 59)
     collector.pc = "parsing"  : inside self.inxi_parser.parse_full (line 66)
     collector.pc = "tasks"    : in the as_completed loop (lines 87-103)
     collector.pc = "returned" : returned collector.data
     collector.pc = "raised"   : left by an exception                        *)

CollectTasks == {"pci", "usb", "system_extra", "logs", "webcam"}

\* SystemCollector.collect (system_collector.py lines 36-49): the twelve
\* collectors it runs, the keys of the mapping it returns.
SystemCollectors ==
    {"kernel", "disk_usage", "fstab", "mhwd", "modules", "cmdline", "efi",
     "acpi", "printer", "rfkill", "sdio", "install_date"}

\* The sets of these collectors that raise in one run.
SystemFailures == {{}, {"mhwd"}, {"efi", "printer"}}

\* system_collector.py lines 51-62: every collector's result under its name,
\* {"error": str(e)} for one that raised.
SystemCollect(failed) ==
    [name \in SystemCollectors |->
        IF name \in failed THEN [error |-> S("error")] ELSE [value |-> S(name)]]

\* What future.result() of a collector that succeeds returns (line 92).
TaskResult(name, failed) ==
    IF name = "system_extra" THEN SystemCollect(failed)
    ELSE [items |-> <<S(name)>>]

\* Lines 59-68: the inxi run answers with data or with an error; data that
\* is not empty goes to parse_full.
CollectInxi ==
    /\ collector.pc = "inxi"
    /\ \E answered \in BOOLEAN :
          collector' =
              IF answered /\ Truthy(data) THEN [collector EXCEPT !.pc = "parsing"]
              ELSE IF answered THEN [collector EXCEPT !.pc = "tasks"]
              ELSE [collector EXCEPT !.pc = "tasks",
                                     !.data = [inxi_error |-> S("error")]]
    /\ UNCHANGED <<data, pc, idx, result, exc, queries, cache, returned, export, settings, sidebar, share, inxi>>

\* Line 66: a step of parse_full.
CollectParseStep == collector.pc = "parsing" /\ Next

\* Lines 66-67: parse_full returned; data.update(parsed_data).
CollectParsed ==
    /\ collector.pc = "parsing"
    /\ pc = "done"
    /\ collector' = [collector EXCEPT !.pc = "tasks", !.data = result @@ @]
    /\ UNCHANGED <<data, pc, idx, result, exc, queries, cache, returned, export, settings, sidebar, share, inxi>>

\* Line 66 is in no try block: an exception of parse_full leaves collect_all.
CollectParseRaised ==
    /\ collector.pc = "parsing"
    /\ pc = "raised"
    /\ collector' = [collector EXCEPT !.pc = "raised"]
    /\ UNCHANGED <<data, pc, idx, result, exc, queries, cache, returned, export, settings, sidebar, share, inxi>>

\* Lines 90-100 with the merge of system_extra replaced by an assignment of
\* the whole mapping.
CollectTaskReplacing ==
    /\ collector.pc = "tasks"
    /\ \E name \in collector.pending, succeeded \in BOOLEAN,
          failed \in SystemFailures :
          /\ (name # "system_extra" \/ ~succeeded) => failed = {}
          /\ collector' =
              [collector EXCEPT
                 !.pending = @ \ {name},
                 !.outcomes =
                    (name :> IF succeeded THEN TaskResult(name, failed)
                             ELSE [error |-> S("error")]) @@ @,
                 !.data =
                    IF ~succeeded THEN (name :> [error |-> S("error")]) @@ @
                    ELSE IF name = "system_extra"
                    THEN TaskResult(name, failed)
                    ELSE (name :> TaskResult(name, failed)) @@ @]
    /\ UNCHANGED <<data, pc, idx, result, exc, queries, cache, returned, export, settings, sidebar, share, inxi>>

\* Lines 89-101, in the thread that called collect_all: the next future of
\* as_completed, any of those still pending, with its result or with the
\* exception it raised.  outcomes keeps what each future gave.
CollectTask ==
    /\ collector.pc = "tasks"
    /\ \E name \in collector.pending, succeeded \in BOOLEAN,
          failed \in SystemFailures :
          /\ (name # "system_extra" \/ ~succeeded) => failed = {}
          /\ collector' =
              [collector EXCEPT
                 !.pending = @ \ {name},
                 !.outcomes =
                    (name :> IF succeeded THEN TaskResult(name, failed)
                             ELSE [error |-> S("error")]) @@ @,
                 !.data =
                    IF ~succeeded THEN (name :> [error |-> S("error")]) @@ @
                    ELSE IF name = "system_extra"
                    THEN [k \in DOMAIN @ \cup SystemCollectors |->
                            IF k \in DOMAIN @ /\ (k \notin SystemCollectors
                                                  \/ @[k] # EmptyDict)
                            THEN @[k] ELSE TaskResult(name, failed)[k]]
                    ELSE (name :> TaskResult(name, failed)) @@ @]
    /\ UNCHANGED <<data, pc, idx, result, exc, queries, cache, returned, export, settings, sidebar, share, inxi>>

\* Line 110: return data.
CollectReturn ==
    /\ collector.pc = "tasks"
    /\ collector.pending = {}
    /\ collector' = [collector EXCEPT !.pc = "returned"]
    /\ UNCHANGED <<data, pc, idx, result, exc, queries, cache, returned, export, settings, sidebar, share, inxi>>

NextCollect ==
    \/ CollectInxi
    \/ CollectParseStep
    \/ CollectParsed
    \/ CollectParseRaised
    \/ CollectTask
    \/ CollectReturn

\* The inxi outputs of the collect_all runs: documents parse_full returns
\* on and documents it raises on.
CollectDocs ==
    {JList(<<>>),
     JList(<<OneItem("CPU", <<"model", "cores">>, <<S("Ryzen"), JInt(4)>>)>>),
     JList(<<OneItem("System", <<"Kernel", "Distro">>, <<S("6.1"), S("BigLinux")>>)>>),
     JList(<<Section(0, "CPU", JNone)>>),
     JList(<<OneItem("Drives", <<"total", "used">>,
                     <<JStr(<<"1", " ", "TiB">>),
                       JStr(<<"x", " ", "(", "1", ".", "2", ".", "3", "%", ")">>)>>)>>)}

InitCollect ==
    /\ InitParser(CollectDocs, QueryPool)
    /\ collector = [pc |-> "inxi", data |-> EmptyDict, pending |-> CollectTasks,
                    outcomes |-> EmptyDict]
    /\ InitWindow

SpecCollect == InitCollect /\ [][NextCollect]_vars

\* C17: an exception of parse_full does not leave collect_all: the call
\* goes on to the five collectors and returns a mapping that holds an error
\* entry and their results.
C17_ParseErrorContained ==
    /\ collector.pc # "raised"
    /\ (collector.pc = "returned" /\ pc = "raised") =>
          /\ CollectTasks \ {"system_extra"} \subseteq DOMAIN collector.data
          /\ \E k \in DOMAIN collector.data :
                /\ k \notin CollectTasks
                /\ DOMAIN collector.data[k] = {"error"}

-----------------------------------------------------------------------------
(* Several parse_full and clear_cache calls on one InxiParser.  The parser
   object holds one attribute, _cache, assigned in __init__ (line 32) and in
   clear_cache (line 1367) and nowhere else; parse_full builds its result
   from a mapping it creates at line 60.  returned holds, for every call
   that ended, its input, its query outcomes and what it returned or
   raised. *)

MaxCalls == 2

\* Lines 1365-1367: self._cache = {}, between two calls.
ClearCache ==
    /\ pc \in {"start", "done", "raised"}
    /\ cache' = EmptyDict
    /\ UNCHANGED <<data, pc, idx, result, exc, queries, returned, collector, export,
                   settings, sidebar, share, inxi>>

\* Lines 48-58: the caller keeps what the call gave and calls parse_full
\* again, on any document, the queries answering in any way.
CallAgain(docs) ==
    /\ pc \in {"done", "raised"}
    /\ Len(returned) < MaxCalls - 1
    /\ returned' = Append(returned,
                          [input |-> data, queries |-> queries, outcome |-> Outcome])
    /\ data' \in docs
    /\ queries' \in QueryPool
    /\ pc' = "start"
    /\ idx' = 1
    /\ result' = EmptyDict
    /\ exc' = ""
    /\ UNCHANGED <<cache, collector, export, settings, sidebar, share, inxi>>

CallDocs == CollectDocs

NextCalls == Next \/ ClearCache \/ CallAgain(CallDocs)

SpecCalls == InitCall(CallDocs, QueryPool) /\ [][NextCalls]_vars

\* What parse_full does on the document d when the queries answer q.
ParseFullUnder(d, q) ==
    ParseFull(d, [i \in 1..(IF d.kind = "list" THEN Len(d.xs) ELSE 0) |-> Env(q)])

\* C18: over any sequence of parse_full and clear_cache calls on one parser,
\* what a call returns or raises is the function of its own input and of
\* its own query answers, whatever was called before; the cache of the
\* parser is empty in every state; and every record an earlier call
\* returned is still what that call made of its input.
C18_CallsIndependent ==
    /\ cache = EmptyDict
    /\ pc \in {"done", "raised"} => Outcome = ParseFullUnder(data, queries)
    /\ \A i \in 1..Len(returned) :
          returned[i].outcome = ParseFullUnder(returned[i].input, returned[i].queries)

\* A second call has returned, after a first call that raised on another
\* document.
C18_Witness ==
    /\ Len(returned) = 1
    /\ ~returned[1].outcome.ok
    /\ pc = "done"
    /\ data # returned[1].input
    /\ result["cpu"] # EmptyDict

-----------------------------------------------------------------------------
(* Export and share of the report (big_hardware_info/ui/dialogs.py,
   export_to_html lines 341-399 and share_in_thread lines 187-245) with
   InxiCollector.collect (big_hardware_info/collectors/inxi_collector.py).
   window.hardware_data is what collect_all gathered when the window loaded:
   its inxi categories come from collect() without filter_sensitive.
     export.pc = "collect"  : inside collector.collect(filter_sensitive=True)
     export.pc = "parsing"  : inside parser.parse_full(filtered_inxi["data"])
     export.pc = "generate" : export_data is built, the HTML is not written
     export.pc = "written"  : the report is in the file
     export.pc = "failed"   : left by the except clause (line 393)
   export.inxi_command is the inxi command whose output the inxi categories
   of export_data come from, <<>> when export_data has none. *)

\* inxi_collector.py lines 23-30.
INXI_COMMAND ==
    <<"inxi", "--tty", "-c", "0", "-Fxxxa", "-v8", "--output", "json",
      "--output-file", "print">>
INXI_COMMAND_FILTERED ==
    <<"inxi", "--tty", "-c", "0", "-Fxxxa", "-v8", "-z", "--output", "json",
      "--output-file", "print">>
INXI_COMMAND_FALLBACK ==
    <<"inxi", "--tty", "-c", "0", "-Fxxx", "--output", "json", "--output-file",
      "print">>

\* inxi_collector.py line 44.
max_retries == 2

\* inxi filters serial numbers and MAC addresses when it is run with -z.
HasPrivacyFilter(command) == \E i \in 1..Len(command) : command[i] = "-z"

\* What window.hardware_data can hold: the output of the standard command,
\* of the fallback command, or no inxi data at all.
WindowCommands == {INXI_COMMAND, INXI_COMMAND_FALLBACK, <<>>}

\* Line 63 of inxi_collector.py.
CollectCommand(filter_sensitive) ==
    IF filter_sensitive THEN INXI_COMMAND_FILTERED ELSE INXI_COMMAND

parserVars == <<data, pc, idx, result, exc, queries, cache, returned>>

\* dialogs.py lines 359-364 and 377-378 (198-203, 216-217): without the
\* filter the window's data is exported as it is; with it a new collection
\* starts.
ExportStart ==
    /\ export.pc = "idle"
    /\ \E kind \in {"export", "share"}, filter_sensitive \in BOOLEAN,
          window \in WindowCommands :
          export' = [pc |-> IF filter_sensitive THEN "collect" ELSE "generate",
                     kind |-> kind,
                     filter_sensitive |-> filter_sensitive,
                     window |-> window,
                     attempt |-> 0,
                     got |-> <<>>,
                     inxi_command |-> IF filter_sensitive THEN <<>> ELSE window]
    /\ UNCHANGED <<parserVars, collector, settings, sidebar, share, inxi>>

\* inxi_collector.py lines 59-61, dialogs.py lines 375-376: no inxi binary,
\* collect returns an error and export_data = window.hardware_data.
ExportNoInxi ==
    /\ export.pc = "collect"
    /\ export.attempt = 0
    /\ export' = [export EXCEPT !.pc = "generate", !.inxi_command = export.window]
    /\ UNCHANGED <<parserVars, collector, settings, sidebar, share, inxi>>

\* inxi_collector.py lines 67-83: one attempt of the chosen command.
ExportAttempt ==
    /\ export.pc = "collect"
    /\ export.attempt <= max_retries
    /\ \E succeeded \in BOOLEAN :
          export' =
              IF succeeded
              THEN [export EXCEPT !.pc = "parsing",
                                  !.got = CollectCommand(export.filter_sensitive)]
              ELSE [export EXCEPT !.attempt = @ + 1]
    /\ UNCHANGED <<parserVars, collector, settings, sidebar, share, inxi>>

\* inxi_collector.py lines 85-98, dialogs.py lines 375-376: after the last
\* attempt the fallback command runs; when it fails too, collect returns
\* an error and export_data = window.hardware_data.
ExportFallback ==
    /\ export.pc = "collect"
    /\ export.attempt = max_retries + 1
    /\ \E succeeded \in BOOLEAN :
          export' =
              IF succeeded
              THEN [export EXCEPT !.pc = "parsing", !.got = INXI_COMMAND_FALLBACK]
              ELSE [export EXCEPT !.pc = "generate", !.inxi_command = export.window]
    /\ UNCHANGED <<parserVars, collector, settings, sidebar, share, inxi>>

\* dialogs.py line 369: a step of parse_full on the collected data.
ExportParseStep == export.pc = "parsing" /\ Next

\* dialogs.py lines 372-374: every key of the parsed data replaces the
\* window's (parse_full returns every inxi category).
ExportParsed ==
    /\ export.pc = "parsing"
    /\ pc = "done"
    /\ export' = [export EXCEPT !.pc = "generate", !.inxi_command = export.got]
    /\ UNCHANGED <<parserVars, collector, settings, sidebar, share, inxi>>

\* dialogs.py lines 393-396: an exception of parse_full ends the export.
ExportParseRaised ==
    /\ export.pc = "parsing"
    /\ pc = "raised"
    /\ export' = [export EXCEPT !.pc = "failed"]
    /\ UNCHANGED <<parserVars, collector, settings, sidebar, share, inxi>>

\* dialogs.py lines 381-396: the report is generated from export_data and
\* written, or an exception ends the export.
ExportWrite ==
    /\ export.pc = "generate"
    /\ \E succeeded \in BOOLEAN :
          export' = [export EXCEPT !.pc = IF succeeded THEN "written" ELSE "failed"]
    /\ UNCHANGED <<parserVars, collector, settings, sidebar, share, inxi>>

NextExport ==
    \/ ExportStart
    \/ ExportNoInxi
    \/ ExportAttempt
    \/ ExportFallback
    \/ ExportParseStep
    \/ ExportParsed
    \/ ExportParseRaised
    \/ ExportWrite

SpecExport == InitCall(CollectDocs, QueryPool) /\ [][NextExport]_vars

\* C19: a report written by an export or share started with
\* filter_sensitive = True holds no inxi data from a run without the -z
\* privacy filter.
C19_FilteredExportOnly ==
    (export.pc = "written" /\ export.filter_sensitive /\ export.inxi_command # <<>>)
        => HasPrivacyFilter(export.inxi_command)

-----------------------------------------------------------------------------
(* AppConfig (src/big_hardware_info/utils/config.py): the configuration
   file and the AppConfig objects of the running programs that share it.
     settings.file    : the file, absent or holding a mapping
     settings.objects : for each object, its config and its modified_keys
     settings.last    : the last operation, the object that ran it and
                        what it returned
     settings.latest  : for each key that was set, the value of the last
                        set call on it by any object
     settings.clean   : no read or write has failed and no reset was made *)

MaxInstances == 2

\* Two of the keys of self.defaults (lines 30-41) and the values given to
\* them.
ConfigKeys == {"theme", "default_export_format"}

defaults == [theme |-> "system", default_export_format |-> "html"]

ConfigValues(key) == IF key = "theme" THEN {"system", "dark"} ELSE {"html", "json"}

\* Lines 71-95: save_config() with no argument.  The file is read again and
\* every key of it that is not in modified_keys replaces the object's value;
\* then the object's config is written.
SaveConfig(config, modified_keys, file, read_ok, write_ok) ==
    Let(IF file.exists /\ read_ok
        THEN [k \in DOMAIN config \cup DOMAIN file.content |->
                IF k \in DOMAIN file.content /\ k \notin modified_keys
                THEN file.content[k] ELSE config[k]]
        ELSE config,
        LAMBDA merged :
           [config |-> merged,
            file |-> IF write_ok THEN [exists |-> TRUE, content |-> merged] ELSE file,
            ret |-> write_ok])

\* Lines 49-69: load_config.  The file's mapping with the missing default
\* keys added; with no readable file the defaults, which are saved.
LoadConfig(file, read_ok, write_ok) ==
    IF file.exists /\ read_ok
    THEN [config |-> [k \in DOMAIN defaults \cup DOMAIN file.content |->
                        IF k \in DOMAIN file.content THEN file.content[k]
                        ELSE defaults[k]],
          file |-> file]
    ELSE [config |-> defaults,
          file |-> IF write_ok THEN [exists |-> TRUE, content |-> defaults] ELSE file]

\* Lines 17-47: a program creates its AppConfig.
ConfigNew ==
    /\ Len(settings.objects) < MaxInstances
    /\ \E read_ok \in BOOLEAN, write_ok \in BOOLEAN :
          Let(LoadConfig(settings.file, read_ok, write_ok),
              LAMBDA loaded :
                 settings' =
                    [file |-> loaded.file,
                     objects |-> Append(settings.objects,
                                        [config |-> loaded.config,
                                         modified_keys |-> {}]),
                     last |-> [op |-> "new", by |-> Len(settings.objects) + 1,
                               ret |-> TRUE],
                     latest |-> settings.latest,
                     clean |-> settings.clean /\ read_ok /\ write_ok])
    /\ UNCHANGED <<parserVars, collector, export, sidebar, share, inxi>>

\* Lines 101-105: set(key, value).
ConfigSet ==
    /\ \E i \in 1..Len(settings.objects), key \in ConfigKeys,
          read_ok \in BOOLEAN, write_ok \in BOOLEAN :
          \E value \in ConfigValues(key) :
             Let(SaveConfig([settings.objects[i].config EXCEPT ![key] = value],
                            settings.objects[i].modified_keys \cup {key},
                            settings.file, read_ok, write_ok),
                 LAMBDA saved :
                    settings' =
                       [file |-> saved.file,
                        objects |-> [settings.objects EXCEPT
                                       ![i] = [config |-> saved.config,
                                               modified_keys |-> @.modified_keys \cup {key}]],
                        last |-> [op |-> "set", by |-> i, ret |-> saved.ret],
                        latest |-> (key :> value) @@ settings.latest,
                        clean |-> settings.clean /\ read_ok /\ write_ok])
    /\ UNCHANGED <<parserVars, collector, export, sidebar, share, inxi>>

\* Lines 107-111: reset().
ConfigReset ==
    /\ \E i \in 1..Len(settings.objects), read_ok \in BOOLEAN, write_ok \in BOOLEAN :
          Let(SaveConfig(defaults, {}, settings.file, read_ok, write_ok),
              LAMBDA saved :
                 settings' =
                    [file |-> saved.file,
                     objects |-> [settings.objects EXCEPT
                                    ![i] = [config |-> saved.config,
                                            modified_keys |-> {}]],
                     last |-> [op |-> "reset", by |-> i, ret |-> saved.ret],
                     latest |-> settings.latest,
                     clean |-> FALSE])
    /\ UNCHANGED <<parserVars, collector, export, sidebar, share, inxi>>

NextConfig == ConfigNew \/ ConfigSet \/ ConfigReset

SpecConfig == InitCall({JList(<<>>)}, {QueriesFail}) /\ [][NextConfig]_vars

\* C20: when reset() has returned True, every key has its default value in
\* the config of the object and in the configuration file.
C20_ResetRestoresDefaults ==
    (settings.last.op = "reset" /\ settings.last.ret) =>
        /\ settings.objects[settings.last.by].config = defaults
        /\ settings.file.exists
        /\ settings.file.content = defaults

-----------------------------------------------------------------------------
(* HtmlGenerator._render_sidebar (src/big_hardware_info/export/
   html_generator.py lines 716-761).  A navigation item is kept as the
   values put into its template: the category id, the icon, the aria-label
   and the visible label.
     sidebar.pc = "ordered"   : in the loop over SECTION_ORDER (lines 752-754)
     sidebar.pc = "remaining" : in the loop over CATEGORIES (lines 757-759)
     sidebar.pc = "done"      : the items are joined and returned *)

MaxExtraCategories == 1

\* A text of several words.
Words(ws) == [i \in 1..(2 * Len(ws) - 1) |-> IF i % 2 = 1 THEN ws[(i + 1) \div 2] ELSE " "]

\* html_generator.py lines 35-39.
SECTION_ORDER ==
    <<W("summary"), W("cpu"), W("gpu"), W("memory"), W("disk"), W("system"),
      W("machine"), W("audio"), W("network"), W("battery"), W("bluetooth"),
      W("usb"), W("pci"), W("webcam"), W("printer"), W("sensors"),
      <<"more", "_", "info">>>>

Category(id, name, icon) == [id |-> id, info |-> [name |-> name, icon |-> icon]]

\* models/hardware_info.py lines 182-268: the mapping, in its order.
CATEGORIES ==
    <<Category(W("summary"), W("Summary"), "view-grid-symbolic"),
      Category(W("cpu"), W("Processor"), "cpu-symbolic"),
      Category(W("gpu"), W("Graphics"), "video-display-symbolic"),
      Category(W("webcam"), W("Webcams"), "camera-web-symbolic"),
      Category(W("machine"), W("Motherboard"), "computer-symbolic"),
      Category(W("memory"), W("Memory"), "memory-symbolic"),
      Category(W("audio"), W("Audio"), "audio-card-symbolic"),
      Category(W("network"), W("Network"), "network-wired-symbolic"),
      Category(W("disk"), W("Storage"), "drive-harddisk-symbolic"),
      Category(W("battery"), W("Battery"), "battery-symbolic"),
      Category(W("bluetooth"), W("Bluetooth"), "bluetooth-symbolic"),
      Category(W("usb"), Words(<<"USB", "Components">>), "media-removable-symbolic"),
      Category(W("pci"), Words(<<"PCI", "Devices">>), "drive-multidisk-symbolic"),
      Category(W("system"), W("System"), "system-run-symbolic"),
      Category(W("printer"), W("Printers"), "printer-symbolic"),
      Category(W("sensors"), W("Sensors"), "temperature-symbolic"),
      Category(<<"more", "_", "info">>, Words(<<"More", "Info">>),
               "dialog-information-symbolic")>>

\* Categories SECTION_ORDER does not list: one with a name and an icon the
\* generator has no glyph for, one with no name.
ExtraCategories ==
    {Category(W("firmware"), W("Firmware"), "firmware-symbolic"),
     [id |-> <<"power", "_", "supply">>, info |-> [icon |-> "battery-symbolic"]]}

\* The category mappings rendered: CATEGORIES, with some categories taken
\* out and up to MaxExtraCategories further ones before and after.
CategoryTables ==
    {t \in {pre \o SelectSeq(CATEGORIES, LAMBDA c : c.id \notin drop) \o post :
               pre \in SeqsUpTo(ExtraCategories, MaxExtraCategories),
               post \in SeqsUpTo(ExtraCategories, MaxExtraCategories),
               drop \in {{}, {W("webcam")}, {W("summary"), W("printer")}}} :
        \A a \in 1..Len(t), b \in 1..Len(t) : a # b => t[a].id # t[b].id}

\* str.title(), word by word.
TitleTok(w) ==
    CASE w = "power" -> "Power"
      [] w = "supply" -> "Supply"
      [] w = "firmware" -> "Firmware"
      [] w = "more" -> "More"
      [] w = "info" -> "Info"
      [] OTHER -> w

Title(t) == [i \in 1..Len(t) |-> TitleTok(t[i])]

\* The translation function _ of big_hardware_info.utils.i18n under three
\* catalogs: none (the message itself), the marking function the test
\* installs (test_html_sidebar_i18n.py line 11), and a catalog that holds
\* some of the messages (gettext gives back a message it does not hold).
Locales == {"C", "X", "pt"}

Translate(locale, message) ==
    CASE locale = "X" -> <<"X[">> \o message \o <<"]">>
      [] locale = "pt" /\ message = Words(<<"Go", "to">>) -> Words(<<"Ir", "para">>)
      [] locale = "pt" /\ message = W("Summary") -> W("Resumo")
      [] locale = "pt" /\ message = W("Processor") -> W("Processador")
      [] locale = "pt" /\ message = W("Memory") -> W("Memoria")
      [] OTHER -> message

\* Lines 722-741: the glyph of an icon name.
icon_map ==
    [i \in {"view-grid-symbolic", "cpu-symbolic", "video-display-symbolic",
            "camera-web-symbolic", "computer-symbolic", "memory-symbolic",
            "audio-card-symbolic", "network-wired-symbolic",
            "drive-harddisk-symbolic", "battery-symbolic", "bluetooth-symbolic",
            "media-removable-symbolic", "drive-multidisk-symbolic",
            "system-run-symbolic", "printer-symbolic", "temperature-symbolic",
            "dialog-information-symbolic"} |-> <<"glyph", i>>]

\* A render_item whose aria-label holds the category name as it is.
RenderItemPlainAria(locale, cid, cinfo) ==
    Let(IF "name" \in DOMAIN cinfo THEN cinfo.name ELSE Title(cid),
        LAMBDA name :
           [target |-> cid,
            icon |-> IF cinfo.icon \in DOMAIN icon_map THEN icon_map[cinfo.icon]
                     ELSE <<"glyph", "default">>,
            aria_label |-> Translate(locale, Words(<<"Go", "to">>)) \o <<" ">> \o name,
            label |-> Translate(locale, name)])

\* Lines 721-749: render_item.
RenderItem(locale, cid, cinfo) ==
    Let(Translate(locale, IF "name" \in DOMAIN cinfo THEN cinfo.name ELSE Title(cid)),
        LAMBDA name :
           [target |-> cid,
            icon |-> IF cinfo.icon \in DOMAIN icon_map THEN icon_map[cinfo.icon]
                     ELSE <<"glyph", "default">>,
            aria_label |-> Translate(locale, Words(<<"Go", "to">>)) \o <<" ">> \o name,
            label |-> name])

\* CATEGORIES[cat_id] and cat_id in CATEGORIES.
CategoryIds(categories) == {categories[k].id : k \in 1..Len(categories)}
CategoryInfo(categories, cid) ==
    (CHOOSE c \in {categories[k] : k \in 1..Len(categories)} : c.id = cid).info

\* Lines 752-754: one round of the loop over SECTION_ORDER.
SidebarOrdered ==
    /\ sidebar.pc = "ordered"
    /\ Let(SECTION_ORDER[sidebar.i],
           LAMBDA cat_id :
              sidebar' =
                 [sidebar EXCEPT
                    !.html = IF cat_id \in CategoryIds(sidebar.categories)
                             THEN Append(@, RenderItem(sidebar.locale, cat_id,
                                                       CategoryInfo(sidebar.categories,
                                                                    cat_id)))
                             ELSE @,
                    !.i = IF sidebar.i = Len(SECTION_ORDER) THEN 1 ELSE @ + 1,
                    !.pc = IF sidebar.i = Len(SECTION_ORDER) THEN "remaining" ELSE @])
    /\ UNCHANGED <<parserVars, collector, export, settings, share, inxi>>

\* Lines 757-759: one round of the loop over CATEGORIES.
SidebarRemaining ==
    /\ sidebar.pc = "remaining"
    /\ sidebar.i <= Len(sidebar.categories)
    /\ Let(sidebar.categories[sidebar.i],
           LAMBDA c :
              sidebar' =
                 [sidebar EXCEPT
                    !.html = IF \A k \in 1..Len(SECTION_ORDER) : SECTION_ORDER[k] # c.id
                             THEN Append(@, RenderItem(sidebar.locale, c.id, c.info))
                             ELSE @,
                    !.i = @ + 1])
    /\ UNCHANGED <<parserVars, collector, export, settings, share, inxi>>

\* Line 761: the items, joined.
SidebarReturn ==
    /\ sidebar.pc = "remaining"
    /\ sidebar.i > Len(sidebar.categories)
    /\ sidebar' = [sidebar EXCEPT !.pc = "done"]
    /\ UNCHANGED <<parserVars, collector, export, settings, share, inxi>>

NextSidebar == SidebarOrdered \/ SidebarRemaining \/ SidebarReturn

InitSidebar ==
    /\ InitParser({JList(<<>>)}, {QueriesFail})
    /\ collector = CollectorIdle
    /\ export = ExportIdle
    /\ settings = NoSettings
    /\ share = ShareIdle
    /\ inxi = InxiIdle
    /\ sidebar \in [pc : {"ordered"}, i : {1}, html : {<<>>},
                    categories : CategoryTables, locale : Locales]

SpecSidebar == InitSidebar /\ [][NextSidebar]_vars

\* The name of the category c as the code takes it before translation.
CategoryName(c) == IF "name" \in DOMAIN c.info THEN c.info.name ELSE Title(c.id)

\* The position of the category id in SECTION_ORDER, 0 when it is not there.
OrderOf(id) ==
    IF \E k \in 1..Len(SECTION_ORDER) : SECTION_ORDER[k] = id
    THEN CHOOSE k \in 1..Len(SECTION_ORDER) : SECTION_ORDER[k] = id
    ELSE 0

\* C21: the sidebar holds exactly one item per category; the items of the
\* categories SECTION_ORDER lists come first, in that order, and the other
\* categories follow in the order of CATEGORIES; the label of an item is the
\* translation of the category name and its aria-label is the translation
\* of "Go to", a space and that translated name.
C21_SidebarItems ==
    sidebar.pc = "done" =>
        /\ \A k \in 1..Len(sidebar.categories) :
              Cardinality({j \in 1..Len(sidebar.html) :
                              sidebar.html[j].target = sidebar.categories[k].id}) = 1
        /\ Len(sidebar.html) = Len(sidebar.categories)
        /\ \A j \in 1..Len(sidebar.html), k \in 1..Len(sidebar.html) :
              j < k =>
                 \/ /\ OrderOf(sidebar.html[j].target) > 0
                    /\ OrderOf(sidebar.html[k].target) = 0
                 \/ /\ OrderOf(sidebar.html[j].target) > 0
                    /\ OrderOf(sidebar.html[j].target) < OrderOf(sidebar.html[k].target)
                 \/ /\ OrderOf(sidebar.html[j].target) = 0
                    /\ OrderOf(sidebar.html[k].target) = 0
                    /\ \E a \in 1..Len(sidebar.categories), b \in 1..Len(sidebar.categories) :
                          /\ a < b
                          /\ sidebar.categories[a].id = sidebar.html[j].target
                          /\ sidebar.categories[b].id = sidebar.html[k].target
        /\ \A k \in 1..Len(sidebar.categories) :
              \E j \in 1..Len(sidebar.html) :
                 /\ sidebar.html[j].target = sidebar.categories[k].id
                 /\ sidebar.html[j].label =
                       Translate(sidebar.locale, CategoryName(sidebar.categories[k]))
                 /\ sidebar.html[j].aria_label =
                       Translate(sidebar.locale, Words(<<"Go", "to">>)) \o <<" ">>
                          \o Translate(sidebar.locale, CategoryName(sidebar.categories[k]))

\* The sidebar rendered under the marking translation for a mapping with a
\* category SECTION_ORDER does not list and without the webcam category:
\* the unlisted category is last, and the labels are marked.
C21_Witness ==
    /\ sidebar.pc = "done"
    /\ sidebar.locale = "X"
    /\ W("webcam") \notin CategoryIds(sidebar.categories)
    /\ Len(sidebar.html) = Len(CATEGORIES)
    /\ sidebar.html[Len(sidebar.html)].target = <<"power", "_", "supply">>
    /\ sidebar.html[Len(sidebar.html)].label = <<"X[", "Power", "_", "Supply", "]">>
    /\ sidebar.html[2].aria_label = <<"X[", "Go", " ", "to", "]", " ", "X[", "Processor", "]">>

-----------------------------------------------------------------------------
(* Network and Audio sections as sequences of Device items, interface
   items and other items. *)

MaxDeviceItems == 3

\* Device items without a type and with the types "Usb" and "PCI", then
\* interface items (IF and IF-ID, one of a virtual interface), then an item
\* that is neither.
DeviceItemPool ==
    {JDict(Fields(0, <<"Device", "bus-ID", "speed">>, <<S("devA"), JStr(BusA), S("s1")>>)),
     JDict(Fields(0, <<"Device", "type", "speed", "rev">>,
                  <<S("devB"), S("Usb"), S("s2"), S("r2")>>)),
     JDict(Fields(0, <<"Device", "type", "gen">>, <<S("devA"), S("PCI"), S("g3")>>))}

InterfaceItemPool ==
    {JDict(Fields(0, <<"IF", "state", "speed">>, <<S("eth0"), S("up"), S("s9")>>)),
     JDict(Fields(0, <<"IF-ID", "state">>, <<S("eth1"), S("down")>>)),
     JDict(Fields(0, <<"IF", "state">>, <<JStr(<<"docker", "0">>), S("up")>>))}

OtherItemPool == {JDict(Fields(0, <<"Message">>, <<S("x")>>))}

DeviceDocs ==
    {JList(<<Section(0, "Network", JList(items))>>) :
        items \in SeqsUpTo(DeviceItemPool \cup InterfaceItemPool \cup OtherItemPool,
                           MaxDeviceItems)}
    \cup
    {JList(<<Section(0, "Audio", JList(items))>>) :
        items \in SeqsUpTo(DeviceItemPool \cup OtherItemPool, MaxDeviceItems)}

SpecDevices == InitWith(DeviceDocs) /\ [][Next]_vars

\* The name and the items of the one section of the document.
DocSectionName == CleanKey(data.xs[1].xs[1][1])
DocItems == data.xs[1].xs[1][2].xs

\* "D" for a Device item, "I" for an interface item, "O" for another one.
ItemKind(item) ==
    Let(Cleaned(item.xs),
        LAMBDA c : IF Has(c, "Device") THEN "D"
                   ELSE IF Has(c, "IF") \/ Has(c, "IF-ID") THEN "I"
                   ELSE "O")

\* The item at position i closes the device the item at position j opened:
\* it is an interface item and only other items stand between them.
Closes(items, j, i) ==
    /\ j < i
    /\ ItemKind(items[j]) = "D"
    /\ ItemKind(items[i]) = "I"
    /\ \A k \in (j + 1)..(i - 1) : ItemKind(items[k]) = "O"

\* The entries of devices that were built from a Device item.
FromDevice(devices) == SelectSeq(devices, LAMBDA d : "vendor" \in DOMAIN d)

\* The positions of the Device items, in order.
DevicePositions(items) ==
    SelectSeq([i \in 1..Len(items) |-> i], LAMBDA i : ItemKind(items[i]) = "D")

\* The accumulator of the item loop after the first k items.
NetworkScan(items, k) ==
    FoldItems(NetworkItem, [devices |-> <<>>, virtual_devices |-> <<>>, cur |-> <<>>],
              JList(SubSeq(items, 1, k))).val

\* C22: each Device item of a Network section yields exactly one entry of
\* network.devices, in input order; an interface item that closes a device
\* is merged into that device's entry and gives no entry of its own; and
\* after every item at most one device is open, the one of the last Device
\* item when no interface item or Device item came after it, every earlier
\* Device item having its entry already.
C22_OneEntryPerDevice ==
    (pc = "done" /\ DocSectionName = W("Network")) =>
        Let(DevicePositions(DocItems),
            LAMBDA at :
               /\ Len(FromDevice(result["network"].devices)) = Len(at)
               /\ \A n \in 1..Len(at) :
                     /\ FromDevice(result["network"].devices)[n].name =
                           Get(Cleaned(DocItems[at[n]].xs), "Device", Empty)
                     /\ \A i \in 1..Len(DocItems) :
                           Closes(DocItems, at[n], i) =>
                              FromDevice(result["network"].devices)[n].IF =
                                 Get(Cleaned(DocItems[i].xs), "IF",
                                     Get(Cleaned(DocItems[i].xs), "IF-ID", Empty))
                     /\ ("IF" \in DOMAIN FromDevice(result["network"].devices)[n])
                           <=> \E i \in 1..Len(DocItems) : Closes(DocItems, at[n], i)
               /\ Len(result["network"].devices)
                     + Len(result["network"].virtual_devices) =
                     Len(at) + Cardinality({i \in 1..Len(DocItems) :
                                               /\ ItemKind(DocItems[i]) = "I"
                                               /\ \A j \in 1..Len(DocItems) :
                                                     ~Closes(DocItems, j, i)})
               /\ \A k \in 0..Len(DocItems) :
                     Let(NetworkScan(DocItems, k),
                         LAMBDA acc :
                            /\ Len(acc.cur) <= 1
                            /\ (acc.cur # <<>>) <=>
                                  \E j \in 1..k :
                                     /\ ItemKind(DocItems[j]) = "D"
                                     /\ \A i \in (j + 1)..k : ItemKind(DocItems[i]) = "O"
                            /\ Len(FromDevice(acc.devices)) + Len(acc.cur) =
                                  Cardinality({j \in 1..k : ItemKind(DocItems[j]) = "D"})))

\* Device, Device, interface: the first device got its entry when the
\* second item came, the interface went into the second device's entry.
C22_Witness ==
    /\ pc = "done"
    /\ DocSectionName = W("Network")
    /\ Len(DocItems) = 3
    /\ ItemKind(DocItems[1]) = "D"
    /\ ItemKind(DocItems[2]) = "D"
    /\ ItemKind(DocItems[3]) = "I"
    /\ Len(result["network"].devices) = 2
    /\ "IF" \notin DOMAIN result["network"].devices[1]
    /\ result["network"].devices[1].name = S("devA")
    /\ result["network"].devices[2].name = S("devB")
    /\ result["network"].devices[2].IF = S("eth1")

\* C23: a device record built from a Device item of an Audio or Network
\* section has usb_speed and usb_rev and none of the PCIe keys when the type
\* of the item is USB in any case, and pcie_gen, pcie_speed and pcie_lanes and
\* none of the USB keys otherwise, also after an interface item was merged
\* into it.
C23_OneAttributeSet ==
    (pc = "done" /\ DocSectionName \in {W("Network"), W("Audio")}) =>
        Let(FromDevice(result[IF DocSectionName = W("Network") THEN "network"
                              ELSE "audio"].devices),
            LAMBDA built :
               /\ Len(built) = Len(DevicePositions(DocItems))
               /\ \A n \in 1..Len(built) :
                     Let(DOMAIN built[n] \cap
                            {"usb_speed", "usb_rev", "pcie_gen", "pcie_speed", "pcie_lanes"},
                         LAMBDA keys :
                            IF Upper(Get(Cleaned(DocItems[DevicePositions(DocItems)[n]].xs),
                                         "type", Empty).s) = W("USB")
                            THEN keys = {"usb_speed", "usb_rev"}
                            ELSE keys = {"pcie_gen", "pcie_speed", "pcie_lanes"}))

\* A Network device of type "Usb" with an interface merged into it.
C23_Witness ==
    /\ pc = "done"
    /\ DocSectionName = W("Network")
    /\ Len(result["network"].devices) = 1
    /\ "usb_speed" \in DOMAIN result["network"].devices[1]
    /\ "IF" \in DOMAIN result["network"].devices[1]
    /\ result["network"].devices[1].type = S("USB")
    /\ result["network"].devices[1].usb_rev = S("r2")

-----------------------------------------------------------------------------
(* Machine sections whose items hold Mobo, Firmware and v keys in every
   order. *)

MaxMachineKeys == 3

\* What stands at one raw-key position of an item: one of the three keys
\* with a value, a Mobo key with a blank value, or nothing.
MachineSlots == {"Mobo", "Firmware", "v", "blank Mobo", "absent"}

\* The item with slots[p] at raw-key position p - 1, its value being the
\* tag and the position; the keys are put in descending order, so that the
\* order of the item is not the sorted one.
MachineItemOf(slots, tag) ==
    Let(SelectSeq([i \in 1..Len(slots) |-> Len(slots) + 1 - i],
                  LAMBDA p : slots[p] # "absent"),
        LAMBDA given :
           JDict([j \in 1..Len(given) |->
                    <<Key(given[j] - 1,
                          IF slots[given[j]] = "blank Mobo" THEN "Mobo" ELSE slots[given[j]]),
                      IF slots[given[j]] = "blank Mobo" THEN Empty
                      ELSE JStr(<<tag, DigitChar(given[j] - 1)>>)>>]))

\* One item of MaxMachineKeys positions, alone or followed by an item of
\* one position less.
MachineDocs ==
    {JList(<<Section(0, "Machine", JList(<<MachineItemOf(s, "a")>>))>>) :
        s \in [1..MaxMachineKeys -> MachineSlots]}
    \cup
    {JList(<<Section(0, "Machine",
                     JList(<<MachineItemOf(s, "a"), MachineItemOf(t, "b")>>))>>) :
        s \in [1..MaxMachineKeys -> MachineSlots],
        t \in [1..(MaxMachineKeys - 1) -> MachineSlots \ {"blank Mobo"}]}

SpecMachine == InitCall(MachineDocs, {QueriesFail}) /\ [][Next]_vars

\* The clean key at raw-key position p of the item, <<>> when the item has
\* no key there or a key with a blank value; and the value there.
SlotKey(item, p) ==
    IF \E j \in 1..Len(item.xs) :
          item.xs[j][1][3] = DigitChar(p) /\ ~IsBlank(item.xs[j][2])
    THEN CleanKey((CHOOSE pair \in {item.xs[j] : j \in 1..Len(item.xs)} :
                      pair[1][3] = DigitChar(p))[1])
    ELSE <<>>
SlotValue(item, p) ==
    (CHOOSE pair \in {item.xs[j] : j \in 1..Len(item.xs)} : pair[1][3] = DigitChar(p))[2]

\* The positions of the v keys of the item that come after a Mobo key and
\* after no Firmware key, and of those that come after a Firmware key.
MoboVersionKeys(item) ==
    {p \in 0..MaxMachineKeys :
        /\ SlotKey(item, p) = W("v")
        /\ \E q \in 0..(p - 1) : SlotKey(item, q) = W("Mobo")
        /\ \A q \in 0..(p - 1) : SlotKey(item, q) # W("Firmware")}
FirmwareVersionKeys(item) ==
    {p \in 0..MaxMachineKeys :
        /\ SlotKey(item, p) = W("v")
        /\ \E q \in 0..(p - 1) : SlotKey(item, q) = W("Firmware")}

Min(ps) == CHOOSE p \in ps : \A q \in ps : p <= q
Max(ps) == CHOOSE p \in ps : \A q \in ps : q <= p

\* The value the last item of items with a key of Keys(item) gives: that of
\* its first such key (first = TRUE) or of its last one; "" with no such
\* item.
VersionFrom(items, Keys(_), first) ==
    Let({k \in 1..Len(items) : Keys(items[k]) # {}},
        LAMBDA with :
           IF with = {} THEN Empty
           ELSE SlotValue(items[Max(with)],
                          IF first THEN Min(Keys(items[Max(with)]))
                          ELSE Max(Keys(items[Max(with)]))))

\* C24: in each Machine item, keys taken in sorted raw-key order, the first
\* v after a Mobo key and before any Firmware key gives mobo_version, a v
\* after a Firmware key gives firmware_version and leaves mobo_version, a v
\* before both gives nothing, and what one item has seen does not count
\* for the next item: mobo_version and firmware_version are those of the
\* last item that gives one.
C24_VersionContext ==
    (pc = "done" /\ DocSectionName = W("Machine")) =>
        /\ result["machine"].mobo_version =
              VersionFrom(DocItems, MoboVersionKeys, TRUE)
        /\ result["machine"].firmware_version =
              VersionFrom(DocItems, FirmwareVersionKeys, FALSE)

\* The first item has Mobo, v, Firmware in sorted order; the second has
\* only a v, which gives nothing.
C24_Witness ==
    /\ pc = "done"
    /\ DocSectionName = W("Machine")
    /\ Len(DocItems) = 2
    /\ SlotKey(DocItems[1], 0) = W("Mobo")
    /\ SlotKey(DocItems[1], 1) = W("v")
    /\ SlotKey(DocItems[1], 2) = W("Firmware")
    /\ SlotKey(DocItems[2], 0) = W("v")
    /\ SlotKey(DocItems[2], 1) = <<>>
    /\ result["machine"].mobo_version = JStr(<<"a", "1">>)
    /\ result["machine"].firmware_version = Empty

-----------------------------------------------------------------------------
(* Documents with Drives, Partition and Swap sections in every order. *)

MaxDiskSections == 3

\* A section whose value is the list of the items given by their field
\* names and values.
ItemsSection(name, items) ==
    Section(0, name,
            JList([i \in 1..Len(items) |-> JDict(Fields(0, items[i][1], items[i][2]))]))

\* A Drives section with one drive; a Partition section with a partition
\* and an item without ID; a Partition section with another partition; a
\* Swap section with the kernel item, a swap entry with an ID and one with
\* a type only; a System section.
DiskSectionPool ==
    {ItemsSection("Drives", <<<<<<"model", "size">>, <<S("driveA"), S("1TB")>>>>>>),
     ItemsSection("Partition",
                  <<<<<<"ID", "size">>, <<S("/"), S("1GB")>>>>,
                    <<<<"Message">>, <<S("x")>>>>>>),
     ItemsSection("Partition", <<<<<<"ID", "fs">>, <<S("/home"), S("ext4")>>>>>>),
     ItemsSection("Swap",
                  <<<<<<"Kernel", "swappiness">>, <<S("k"), S("60")>>>>,
                    <<<<"ID", "type">>, <<S("swap-1"), S("partition")>>>>,
                    <<<<"type", "size">>, <<S("zram"), S("1GB")>>>>>>),
     OneItem("System", <<"Kernel", "Distro">>, <<S("6.1"), S("BigLinux")>>)}

DiskSectionDocs == {JList(sections) : sections \in SeqsUpTo(DiskSectionPool, MaxDiskSections)}

SpecDisk == InitCall(DiskSectionDocs, {QueriesFail}) /\ [][Next]_vars

\* The items, cleaned, of the sections of the document whose name holds the
\* word, in document order.
ItemsOfSections(sections, word) ==
    LET f[i \in 0..Len(sections)] ==
            IF i = 0 THEN <<>>
            ELSE IF Contains(CleanKey(sections[i].xs[1][1]), W(word))
            THEN f[i - 1] \o [j \in 1..Len(sections[i].xs[1][2].xs) |->
                                Cleaned(sections[i].xs[1][2].xs[j].xs)]
            ELSE f[i - 1]
    IN f[Len(sections)]

\* The partitions and the swap entries of the document.
DocPartitions ==
    SelectSeq(ItemsOfSections(data.xs, "Partition"), LAMBDA c : Has(c, "ID"))
DocSwaps ==
    SelectSeq(ItemsOfSections(data.xs, "Swap"),
              LAMBDA c : /\ ~(Has(c, "Kernel") \/ Has(c, "swappiness"))
                         /\ (Has(c, "ID") \/ Has(c, "type")))

HasDrives ==
    \E i \in 1..Len(data.xs) : Contains(CleanKey(data.xs[i].xs[1][1]), W("Drives"))

\* C25: with a Drives section in the document, disk.partitions holds one
\* entry for every item with an ID of every Partition section and disk.swap
\* one entry for every swap entry of every Swap section, in document order,
\* wherever those sections stand and however many Drives sections there
\* are.
C25_PartitionsAndSwapOnce ==
    (pc = "done" /\ HasDrives) =>
        /\ Len(result["disk"].partitions) = Len(DocPartitions)
        /\ \A k \in 1..Len(DocPartitions) :
              result["disk"].partitions[k].id = Get(DocPartitions[k], "ID", Empty)
        /\ Len(result["disk"].swap) = Len(DocSwaps)
        /\ \A k \in 1..Len(DocSwaps) :
              /\ result["disk"].swap[k].id = Get(DocSwaps[k], "ID", Empty)
              /\ result["disk"].swap[k].type = Get(DocSwaps[k], "type", Empty)

\* A Partition section, a Drives section, a Swap section: the partition
\* that stands before the Drives section and the two swap entries after it
\* are in the result once.
C25_Witness ==
    /\ pc = "done"
    /\ Len(data.xs) = 3
    /\ CleanKey(data.xs[1].xs[1][1]) = W("Partition")
    /\ CleanKey(data.xs[2].xs[1][1]) = W("Drives")
    /\ CleanKey(data.xs[3].xs[1][1]) = W("Swap")
    /\ Len(result["disk"].partitions) = 1
    /\ result["disk"].partitions[1].id = S("/")
    /\ Len(result["disk"].swap) = 2
    /\ result["disk"].swap[2].type = S("zram")

-----------------------------------------------------------------------------
(* CPU items with a min/max field. *)

MaxMinMaxItems == 2

\* "800/4000", "1200/3600", "800/abc", "abc/4000", "800", "800/4000/1" and
\* the integer 800.
MinMaxPool ==
    {JStr(<<"8", "0", "0", "/", "4", "0", "0", "0">>),
     JStr(<<"1", "2", "0", "0", "/", "3", "6", "0", "0">>),
     JStr(<<"8", "0", "0", "/", "a", "b", "c">>),
     JStr(<<"a", "b", "c", "/", "4", "0", "0", "0">>),
     JStr(<<"8", "0", "0">>),
     JStr(<<"8", "0", "0", "/", "4", "0", "0", "0", "/", "1">>),
     JInt(800)}

MinMaxDocs ==
    {JList(<<Section(0, "CPU",
                     JList([i \in 1..Len(vs) |->
                              JDict(Fields(0, <<"model", "min/max">>,
                                           <<S("Ryzen"), vs[i]>>))]))>>) :
        vs \in SeqsUpTo(MinMaxPool, MaxMinMaxItems)}

SpecMinMax == InitWith(MinMaxDocs) /\ [][Next]_vars

\* The min/max value of an item is two integers with one "/" between them.
TwoIntegers(v) ==
    Let(SplitOn(ToStr(v), "/"),
        LAMBDA parts : /\ Len(parts) = 2
                       /\ PyInt(JStr(parts[1])).ok
                       /\ PyInt(JStr(parts[2])).ok)

\* speed_min and speed_max when every item whose min/max is two integers
\* sets both and every other item sets neither.
MinMaxWhole(items) ==
    LET f[i \in 0..Len(items)] ==
            IF i = 0 THEN <<0, 0>>
            ELSE Let(Get(Cleaned(items[i].xs), "min/max", Empty),
                     LAMBDA v :
                        IF TwoIntegers(v)
                        THEN <<PyInt(JStr(SplitOn(ToStr(v), "/")[1])).val,
                               PyInt(JStr(SplitOn(ToStr(v), "/")[2])).val>>
                        ELSE f[i - 1])
    IN f[Len(items)]

\* C26: a min/max field that is not two integers separated by one "/"
\* never makes the CPU parse raise and leaves speed_min and speed_max both
\* as they were before the item.
C26_MinMaxAllOrNothing ==
    /\ (pc = "raised" /\ DocSectionName = W("CPU")) => FALSE
    /\ (pc = "done" /\ DocSectionName = W("CPU")) =>
          <<result["cpu"].speed_min, result["cpu"].speed_max>> = MinMaxWhole(DocItems)

-----------------------------------------------------------------------------
(* InxiCollector.collect (inxi_collector.py lines 47-98) with the commands
   it runs.
     inxi.pc = "called"   : at line 59
     inxi.pc = "retry"    : in the retry loop and at the fallback command
     inxi.pc = "returned" : collect has returned inxi.ret
   inxi.runs holds, for every command run, the command and how it ended. *)

\* How a run of run_command ends (base_collector.py lines 52-82, and
\* json.loads): exit status 0 with JSON output, with output that is not
\* JSON, with no output, and a failure (another exit status, a timeout, an
\* exception).
RunOutcomes == {"json", "not json", "no output", "failed"}

\* Lines 59-61: inxi is not in PATH.
InxiNotFound ==
    /\ inxi.pc = "called"
    /\ ~inxi.installed
    /\ inxi' = [inxi EXCEPT !.pc = "returned", !.ret = [kind |-> "error"]]
    /\ UNCHANGED <<parserVars, collector, export, settings, sidebar, share>>

\* Lines 63-66: the command is chosen.
InxiChoose ==
    /\ inxi.pc = "called"
    /\ inxi.installed
    /\ inxi' = [inxi EXCEPT !.pc = "retry",
                            !.command = CollectCommand(inxi.filter_sensitive)]
    /\ UNCHANGED <<parserVars, collector, export, settings, sidebar, share>>

\* A round of the retry loop that also runs for attempt max_retries + 1.
InxiAttemptOnceMore ==
    /\ inxi.pc = "retry"
    /\ inxi.attempt <= max_retries + 1
    /\ \E outcome \in RunOutcomes :
          inxi' =
             IF outcome = "json"
             THEN [inxi EXCEPT
                     !.runs = Append(@, [command |-> inxi.command, outcome |-> outcome]),
                     !.pc = "returned",
                     !.ret = [kind |-> "data", run |-> Len(inxi.runs) + 1]]
             ELSE [inxi EXCEPT
                     !.runs = Append(@, [command |-> inxi.command, outcome |-> outcome]),
                     !.attempt = @ + 1]
    /\ UNCHANGED <<parserVars, collector, export, settings, sidebar, share>>

\* Lines 67-83: one round of the retry loop.
InxiAttempt ==
    /\ inxi.pc = "retry"
    /\ inxi.attempt <= max_retries
    /\ \E outcome \in RunOutcomes :
          inxi' =
             IF outcome = "json"
             THEN [inxi EXCEPT
                     !.runs = Append(@, [command |-> inxi.command, outcome |-> outcome]),
                     !.pc = "returned",
                     !.ret = [kind |-> "data", run |-> Len(inxi.runs) + 1]]
             ELSE [inxi EXCEPT
                     !.runs = Append(@, [command |-> inxi.command, outcome |-> outcome]),
                     !.attempt = @ + 1]
    /\ UNCHANGED <<parserVars, collector, export, settings, sidebar, share>>

\* Lines 85-98: the fallback command, then the return.
InxiFallback ==
    /\ inxi.pc = "retry"
    /\ inxi.attempt = max_retries + 1
    /\ \E outcome \in RunOutcomes :
          inxi' =
             [inxi EXCEPT
                !.runs = Append(@, [command |-> INXI_COMMAND_FALLBACK,
                                    outcome |-> outcome]),
                !.pc = "returned",
                !.ret = IF outcome = "json"
                        THEN [kind |-> "data", run |-> Len(inxi.runs) + 1]
                        ELSE [kind |-> "error"]]
    /\ UNCHANGED <<parserVars, collector, export, settings, sidebar, share>>

NextInxi == InxiNotFound \/ InxiChoose \/ InxiAttempt \/ InxiFallback

InitInxi ==
    /\ InitParser({JList(<<>>)}, {QueriesFail})
    /\ collector = CollectorIdle
    /\ export = ExportIdle
    /\ settings = NoSettings
    /\ sidebar = SidebarIdle
    /\ share = ShareIdle
    /\ inxi \in [pc : {"called"}, filter_sensitive : BOOLEAN, installed : BOOLEAN,
                 command : {<<>>}, attempt : {0}, runs : {<<>>},
                 ret : {[kind |-> "none"]}]

\* Every run ends (run_command has a timeout), so a call that can take a
\* step takes it.
SpecInxi == InitInxi /\ [][NextInxi]_vars /\ WF_vars(NextInxi)

\* The runs so far are those of a collect call: at most max_retries + 1
\* runs of the chosen command, then at most one of the fallback command,
\* none after a run that gave JSON, none without inxi; and what a returned
\* call gave is the data of its last run when that run gave JSON, an error
\* after four failed runs or without inxi.
CollectRuns ==
    /\ Len(inxi.runs) <= max_retries + 2
    /\ \A i \in 1..Len(inxi.runs) :
          /\ inxi.runs[i].command =
                IF i <= max_retries + 1 THEN CollectCommand(inxi.filter_sensitive)
                ELSE INXI_COMMAND_FALLBACK
          /\ i < Len(inxi.runs) => inxi.runs[i].outcome # "json"
    /\ ~inxi.installed => inxi.runs = <<>>
    /\ inxi.pc = "returned" =>
          /\ inxi.ret.kind \in {"data", "error"}
          /\ inxi.ret.kind = "data" =>
                /\ inxi.runs # <<>>
                /\ inxi.ret.run = Len(inxi.runs)
                /\ inxi.runs[Len(inxi.runs)].outcome = "json"
          /\ inxi.ret.kind = "error" =>
                \/ ~inxi.installed
                \/ /\ Len(inxi.runs) = max_retries + 2
                   /\ \A i \in 1..Len(inxi.runs) : inxi.runs[i].outcome # "json"

\* C27: collect always returns, after at most max_retries + 1 runs of the
\* chosen command and at most one run of the fallback command; it returns
\* the data of the first run that gave JSON and runs nothing after it,
\* returns an error only when all four runs failed, and runs nothing when
\* inxi is not in PATH.
C27_CollectTerminates == []CollectRuns /\ <>(inxi.pc = "returned")

\* The three runs of the filtered command failed in three ways and the
\* fallback command gave the data.
C27_Witness ==
    /\ inxi.pc = "returned"
    /\ inxi.filter_sensitive
    /\ Len(inxi.runs) = max_retries + 2
    /\ inxi.runs[1].outcome = "failed"
    /\ inxi.runs[2].outcome = "not json"
    /\ inxi.runs[3].outcome = "no output"
    /\ inxi.runs[3].command = INXI_COMMAND_FILTERED
    /\ inxi.runs[4].command = INXI_COMMAND_FALLBACK
    /\ inxi.ret = [kind |-> "data", run |-> 4]

-----------------------------------------------------------------------------
\* C28: with AppConfig objects sharing the file, when no read or write has
\* failed and only set calls were made, the file holds for every key that
\* was set the value of the most recent set call on it, whichever object
\* made it.
C28_LatestSetInFile ==
    (settings.clean /\ settings.last.op = "set") =>
        \A key \in DOMAIN settings.latest :
            settings.file.content[key] = settings.latest[key]

-----------------------------------------------------------------------------
(* The merge of the five collectors in collect_all.  The pool runs the
   collectors; every assignment to data is made by the calling thread, in
   the as_completed loop, one future after the other (lines 89-101).  The
   keys parse_full produces (inxi_parser.py lines 60-72, 113-126), the five
   task names and the twelve keys of SystemCollector.collect are pairwise
   different. *)

\* What the future of a collector gave: the mapping it returned, or the
\* error entry of the exception it raised.
FutureRaised(name) == DOMAIN collector.outcomes[name] = {"error"}

\* The keys data holds before the pool starts (lines 65-69).
InxiKeys == IF pc = "done" THEN DOMAIN result
            ELSE {"inxi_error"} \cap DOMAIN collector.data

\* The mapping collect_all returns, from what the parse and the futures gave
\* and from nothing else.
MergedOf(base, outcomes) ==
    [k \in DOMAIN base
           \cup (CollectTasks \ {"system_extra"})
           \cup (IF DOMAIN outcomes["system_extra"] = {"error"}
                 THEN {"system_extra"} ELSE SystemCollectors) |->
        IF k \in DOMAIN base THEN base[k]
        ELSE IF k \in CollectTasks THEN outcomes[k]
        ELSE outcomes["system_extra"][k]]

\* C29: the mapping collect_all returns holds what the inxi parse produced,
\* unchanged, the result or the error entry of pci, usb, logs and webcam
\* under their names, and the keys of the system_extra result or its error
\* entry; it is determined by what the parse and the five futures gave,
\* whatever the order in which the futures completed.
C29_MergeOrderFree ==
    collector.pc = "returned" =>
        /\ DOMAIN collector.outcomes = CollectTasks
        /\ collector.data =
              MergedOf([k \in InxiKeys |-> IF pc = "done" THEN result[k]
                                           ELSE S("error")],
                       collector.outcomes)

\* A returned collect_all on a parsed document with a CPU, where the usb
\* collector raised and system_extra returned with one failed collector.
C29_Witness ==
    /\ collector.pc = "returned"
    /\ pc = "done"
    /\ result["cpu"] # EmptyDict
    /\ FutureRaised("usb")
    /\ ~FutureRaised("system_extra")
    /\ collector.data["mhwd"] = [error |-> S("error")]
    /\ collector.data["kernel"] = [value |-> S("kernel")]
    /\ collector.data["pci"] = [items |-> <<S("pci")>>]

-----------------------------------------------------------------------------
(* start_share_upload and _on_share_complete (ui/dialogs.py).  The window
   holds one _share_dialog and one _share_canceled for all its shares; every
   share has its own progress dialog and its own thread.
     share.count          : shares started so far, the newest share's number
     share.canceled       : window._share_canceled
     share.dialog         : window._share_dialog, the share whose progress
                            dialog it is, 0 for None
     share.open           : the shares whose progress dialog is on screen
     share.thread[n]      : where share n's thread is: "generating" (lines
                            193-227), "uploading" (line 234), "done"
     share.idle           : the callbacks GLib.idle_add queued, oldest first
     share.cancelled      : the shares whose Cancel response was handled
     share.presented      : the result dialogs presented, with whether the
                            share had been cancelled by then                *)

MaxShares == 2

ShareResponses == {"cancel", "close"}

\* Lines 149-184, 244: a new progress dialog and a new thread; the window's
\* flag is cleared.  The dialogs are modal: the share button is reached when
\* no progress dialog is on screen.
ShareStart ==
    /\ share.count < MaxShares
    /\ share.open = {}
    /\ share' = [share EXCEPT
                   !.count = @ + 1,
                   !.canceled = FALSE,
                   !.dialog = share.count + 1,
                   !.open = {share.count + 1},
                   !.thread = (share.count + 1 :> "generating") @@ @]
    /\ UNCHANGED <<parserVars, collector, export, settings, sidebar, inxi>>

\* Lines 178-181, on_progress_response of share n's dialog: "cancel" sets
\* the window's flag; the dialog goes away on every response.
ShareResponse ==
    /\ \E n \in share.open, response \in ShareResponses :
          share' = [share EXCEPT
                      !.canceled = IF response = "cancel" THEN TRUE ELSE @,
                      !.cancelled = IF response = "cancel" THEN @ \cup {n} ELSE @,
                      !.open = @ \ {n}]
    /\ UNCHANGED <<parserVars, collector, export, settings, sidebar, inxi>>

\* Lines 236-237 and 240-242: the thread reads the window's flag and, when
\* it is not set, queues _on_share_complete.
ShareQueue(n, success) ==
    IF share.canceled THEN share.idle
    ELSE Append(share.idle, [of |-> n, success |-> success])

\* Lines 193-230 in share n's thread: the report is generated and written;
\* an exception goes to line 239, a set flag ends the thread (line 229).
ShareGenerated ==
    /\ \E n \in DOMAIN share.thread, raised \in BOOLEAN :
          /\ share.thread[n] = "generating"
          /\ share' =
               IF raised
               THEN [share EXCEPT !.thread[n] = "done",
                                  !.idle = ShareQueue(n, FALSE)]
               ELSE IF share.canceled
               THEN [share EXCEPT !.thread[n] = "done"]
               ELSE [share EXCEPT !.thread[n] = "uploading"]
    /\ UNCHANGED <<parserVars, collector, export, settings, sidebar, inxi>>

\* Lines 233-242 in share n's thread: upload_to_filebin returned
\* (success, result) or raised.
ShareUploaded ==
    /\ \E n \in DOMAIN share.thread, success \in BOOLEAN :
          /\ share.thread[n] = "uploading"
          /\ share' = [share EXCEPT !.thread[n] = "done",
                                    !.idle = ShareQueue(n, success)]
    /\ UNCHANGED <<parserVars, collector, export, settings, sidebar, inxi>>

\* Lines 247-257, run by the main loop: the window's progress dialog is
\* closed and the result dialog is presented.
ShareComplete ==
    /\ share.idle # <<>>
    /\ share' = [share EXCEPT
                   !.idle = Tail(@),
                   !.open = @ \ {share.dialog},
                   !.dialog = 0,
                   !.presented =
                       @ \cup {[of |-> Head(share.idle).of,
                                success |-> Head(share.idle).success,
                                cancelled |->
                                    Head(share.idle).of \in share.cancelled]}]
    /\ UNCHANGED <<parserVars, collector, export, settings, sidebar, inxi>>

NextShare ==
    \/ ShareStart
    \/ ShareResponse
    \/ ShareGenerated
    \/ ShareUploaded
    \/ ShareComplete

InitShare ==
    /\ InitParser({JList(<<>>)}, {QueriesFail})
    /\ collector = CollectorIdle
    /\ export = ExportIdle
    /\ settings = NoSettings
    /\ sidebar = SidebarIdle
    /\ inxi = InxiIdle
    /\ share = [count |-> 0, canceled |-> FALSE, dialog |-> 0, open |-> {},
                thread |-> EmptyDict, idle |-> <<>>, cancelled |-> {},
                presented |-> {}]

SpecShare == InitShare /\ [][NextShare]_vars

\* C30: no result dialog, success or failure, is presented for a share
\* after the user cancelled it, whatever the order of the cancel response,
\* the thread's steps and the completion callback, also with a second share
\* started while the first thread runs.
C30_NoResultAfterCancel ==
    \A dialog \in share.presented : ~dialog.cancelled

====
